---------------------------- MODULE Spec2Model ----------------------------
(***************************************************************************)
(* A model of the finance tracker: the relational tables of models.py and  *)
(* the request handlers of app.py and routes/*.py that read and write      *)
(* them.                                                                   *)
(*                                                                         *)
(* A request is a read phase (form validation and the SELECTs of the       *)
(* handler) followed by a write phase (the flush and COMMIT, where the     *)
(* database checks its UNIQUE, NOT NULL and FOREIGN KEY constraints).      *)
(* Every handler is an action that runs both phases in one step.  The      *)
(* handlers that guard a write by a SELECT also come as a begin action     *)
(* (the read phase, leaving the request in `inflight`) and the action      *)
(* commit_inflight (its write phase), so that other requests run between   *)
(* the two.                                                                *)
(***************************************************************************)
EXTENDS Integers, Sequences, FiniteSets, Bags, TLC

VARIABLES
    users,          \* table users         (models.py User)
    accounts,       \* table accounts      (models.py Account)
    categories,     \* table categories    (models.py Category)
    transactions,   \* table transactions  (models.py Transaction)
    goals,          \* table goals         (models.py Goal)
    score_rules,    \* table score_rules   (models.py ScoreRule)
    seq,            \* last value of each table's id sequence
    sessions,       \* ids of the users whose browser holds a login session
    inflight,       \* bag of requests between their read and write phase
    resp            \* the last response: HTTP status and flash category

tables == <<users, accounts, categories, transactions, goals, score_rules>>
vars == <<users, accounts, categories, transactions, goals, score_rules,
          seq, sessions, inflight, resp>>

-----------------------------------------------------------------------------
(* Bounds of the model.                                                    *)

MaxUsers == 2
MaxAccounts == 9
MaxCategories == 2
MaxTransactions == 1
MaxScoreRules == 1
MaxInflight == 1

UserIds == 1..MaxUsers
AccountIds == 1..MaxAccounts
CategoryIds == 1..MaxCategories
TransactionIds == 1..MaxTransactions
ScoreRuleIds == 1..MaxScoreRules

\* SQL NULL / Python None in an id column (ids start at 1)
NULL == 0

-----------------------------------------------------------------------------
(* Text.  A string is a sequence of tokens; a token is a blank " " or a    *)
(* run of non-blank characters.                                            *)

RECURSIVE lstrip(_)
lstrip(s) == IF s # <<>> /\ Head(s) = " " THEN lstrip(Tail(s)) ELSE s

RECURSIVE rstrip(_)
rstrip(s) ==
    IF s # <<>> /\ s[Len(s)] = " " THEN rstrip(SubSeq(s, 1, Len(s) - 1)) ELSE s

\* str.strip()
strip(s) == rstrip(lstrip(s))

lower_token(t) ==
    CASE t = "A@X" -> "a@x"
      [] t = "B@X" -> "b@x"
      [] t = "SAIDA" -> "saida"
      [] t = "Saida" -> "saida"
      [] t = "ENTRADA" -> "entrada"
      [] t = "Data" -> "data"
      [] t = "Descricao" -> "descricao"
      [] t = "Descrição" -> "descrição"
      [] t = "Tipo" -> "tipo"
      [] t = "Valor" -> "valor"
      [] t = "Categoria" -> "categoria"
      [] t = "Conta" -> "conta"
      [] OTHER -> t

\* str.lower()
lower(s) == [i \in 1..Len(s) |-> lower_token(s[i])]

contains(s, ch) == \E i \in 1..Len(s) : s[i] = ch

\* str.replace(a, b) for one-character a and b
replace(s, a, b) == [i \in 1..Len(s) |-> IF s[i] = a THEN b ELSE s[i]]

\* str.replace(a, "")
remove(s, a) == SelectSeq(s, LAMBDA c : c # a)

Digits == <<"0", "1", "2", "3", "4", "5", "6", "7", "8", "9">>

is_digit(c) == \E i \in 1..Len(Digits) : Digits[i] = c

digit_value(c) == (CHOOSE i \in 1..Len(Digits) : Digits[i] = c) - 1

RECURSIVE digits_value(_)
digits_value(s) ==
    IF s = <<>> THEN 0
    ELSE 10 * digits_value(SubSeq(s, 1, Len(s) - 1)) + digit_value(s[Len(s)])

-----------------------------------------------------------------------------
(* Numbers.  A float is a decimal [m, e] of value m / 10^e, kept without   *)
(* trailing zeros so that equal values are equal records.                  *)

RECURSIVE decimal(_, _)
decimal(m, e) ==
    IF e > 0 /\ m % 10 = 0 THEN decimal(m \div 10, e - 1) ELSE [m |-> m, e |-> e]

\* float(text) for a text of digits, '.', blanks and a leading sign: the
\* value, or ValueError
float(text) ==
    LET s == strip(text)
        signed == s # <<>> /\ s[1] \in {"-", "+"}
        body == IF signed THEN Tail(s) ELSE s
        dots == {i \in 1..Len(body) : body[i] = "."}
        digs == remove(body, ".")
        ok == /\ Cardinality(dots) <= 1
              /\ digs # <<>>
              /\ \A i \in 1..Len(digs) : is_digit(digs[i])
        e == IF dots = {} THEN 0 ELSE Len(body) - (CHOOSE i \in dots : TRUE)
        m == digits_value(digs)
    IN  IF ok
        THEN [ok |-> TRUE, val |-> decimal(IF signed /\ s[1] = "-" THEN -m ELSE m, e)]
        ELSE [ok |-> FALSE, val |-> decimal(0, 0)]

RECURSIVE pow10(_)
pow10(n) == IF n = 0 THEN 1 ELSE 10 * pow10(n - 1)

\* a < b, a <= b on floats
lt(a, b) == a.m * pow10(b.e) < b.m * pow10(a.e)
le(a, b) == a.m * pow10(b.e) <= b.m * pow10(a.e)

\* a parser that, given both marks, drops the commas and keeps the dot
safe_float_us(value) ==
    LET s0 == strip(value)
        s1 == remove(s0, " ")
        s2 == IF contains(s1, ",") /\ contains(s1, ".")
              THEN remove(s1, ",")
              ELSE replace(s1, ",", ".")
    IN  IF s0 = <<>> THEN [ok |-> FALSE, val |-> decimal(0, 0)] ELSE float(s2)

\* safe_float_br(value): the value, or ValueError
safe_float_br(value) ==
    LET s0 == strip(value)
        s1 == remove(s0, " ")
        s2 == IF contains(s1, ",") /\ contains(s1, ".")
              THEN replace(remove(s1, "."), ",", ".")
              ELSE replace(s1, ",", ".")
    IN  IF s0 = <<>> THEN [ok |-> FALSE, val |-> decimal(0, 0)] ELSE float(s2)

-----------------------------------------------------------------------------
(* Dates.  A datetime is [y, m, d, t], t the seconds since midnight.       *)

is_leap(y) == (y % 4 = 0 /\ y % 100 # 0) \/ y % 400 = 0

days_in_month(y, m) ==
    IF m = 2 THEN (IF is_leap(y) THEN 29 ELSE 28)
    ELSE IF m \in {4, 6, 9, 11} THEN 30 ELSE 31

datetime(y, m, d, t) == [y |-> y, m |-> m, d |-> d, t |-> t]

\* datetime.strptime(s, "%Y-%m-%d"): the date at midnight, or ValueError
strptime_ymd(s) ==
    LET dash == {i \in 1..Len(s) : s[i] = "-"}
        i1 == IF dash = {} THEN 0 ELSE CHOOSE i \in dash : \A j \in dash : i <= j
        i2 == IF dash = {} THEN 0 ELSE CHOOSE i \in dash : \A j \in dash : i >= j
        ys == SubSeq(s, 1, i1 - 1)
        ms == SubSeq(s, i1 + 1, i2 - 1)
        ds == SubSeq(s, i2 + 1, Len(s))
        shape == /\ Cardinality(dash) = 2
                 /\ Len(ys) = 4 /\ Len(ms) \in {1, 2} /\ Len(ds) \in {1, 2}
                 /\ \A i \in 1..Len(s) : i \in dash \/ is_digit(s[i])
        y == digits_value(ys)
        m == digits_value(ms)
        d == digits_value(ds)
        ok == shape /\ y >= 1 /\ m \in 1..12 /\ d >= 1 /\ d <= days_in_month(y, m)
    IN  IF ok
        THEN [ok |-> TRUE, val |-> datetime(y, m, d, 0)]
        ELSE [ok |-> FALSE, val |-> datetime(1, 1, 1, 0)]

\* datetime.utcnow(): the clock of the server when the request runs
Clock == {datetime(2025, 1, 20, 3600)}

-----------------------------------------------------------------------------
(* Responses and the frame of a request.                                   *)

Respond(code, flash) == resp' = [code |-> code, flash |-> flash]

\* first_or_404(): abort(404), nothing written
NotFound == Respond(404, "none") /\ UNCHANGED <<tables, seq>>

\* a form re-rendered with an error message, or a redirect with one
Rejected(code, flash) == Respond(code, flash) /\ UNCHANGED <<tables, seq>>

\* a lookup by id alone, without the filter on the owner
owned_by_anyone(table, obj_id, u) == {r \in table : r.id = obj_id}

\* get_owned_or_404(model, obj_id) for current_user = u: the rows it finds
owned(table, obj_id, u) == {r \in table : r.id = obj_id /\ r.user_id = u}

of_user(table, u) == {r \in table : r.user_id = u}

-----------------------------------------------------------------------------
(* Categories.                                                             *)

Category(id, u, name) == [id |-> id, user_id |-> u, name |-> name]

\* a categories table without the constraint
uq_categories_absent(u, name, self) == TRUE

\* UNIQUE (user_id, name) on categories, as the database checks it when a
\* row of user u is written with `name`; `self` is the id of the row written
uq_categories_user_name(u, name, self) ==
    \A c \in categories : ~(c.user_id = u /\ c.name = name /\ c.id # self)

\* write phase of new_category: INSERT and COMMIT, or IntegrityError
new_category_commit(u, name) ==
    IF uq_categories_user_name(u, name, NULL)
    THEN /\ categories' = categories \cup {Category(seq.categories + 1, u, name)}
         /\ seq' = [seq EXCEPT !.categories = @ + 1]
         /\ Respond(302, "success")
         /\ UNCHANGED <<users, accounts, transactions, goals, score_rules>>
    ELSE Rejected(200, "error")

\* read phase of new_category: the two validations of the form
new_category_valid(u, name) ==
    /\ name # <<>>
    /\ ~ \E c \in categories : c.user_id = u /\ c.name = name

new_category(u, raw) ==
    LET name == strip(raw) IN
    /\ u \in sessions
    /\ seq.categories < MaxCategories
    /\ IF new_category_valid(u, name)
       THEN new_category_commit(u, name)
       ELSE Rejected(200, "error")
    /\ UNCHANGED <<sessions, inflight>>

\* write phase of edit_category: UPDATE of the loaded row and COMMIT
edit_category_commit(u, cat_id, name) ==
    IF owned(categories, cat_id, u) # {} /\ uq_categories_user_name(u, name, cat_id)
    THEN /\ categories' =
                {IF c.id = cat_id THEN [c EXCEPT !.name = name] ELSE c : c \in categories}
         /\ Respond(302, "success")
         /\ UNCHANGED <<users, accounts, transactions, goals, score_rules, seq>>
    ELSE Rejected(200, "error")

edit_category_valid(u, cat_id, name) ==
    /\ name # <<>>
    /\ ~ \E c \in categories : c.user_id = u /\ c.name = name /\ c.id # cat_id

edit_category(u, cat_id, raw) ==
    LET name == strip(raw) IN
    /\ u \in sessions
    /\ IF owned(categories, cat_id, u) = {}
       THEN NotFound
       ELSE IF edit_category_valid(u, cat_id, name)
            THEN edit_category_commit(u, cat_id, name)
            ELSE Rejected(200, "error")
    /\ UNCHANGED <<sessions, inflight>>

\* the ORM's flush of session.delete(category): the rows of the backrefs
\* Category.transactions, Category.goals and Category.score_rules are loaded,
\* whoever owns them, and their category_id is set to NULL before the DELETE;
\* score_rules.category_id is NOT NULL, so a rule on the category makes the
\* flush raise IntegrityError
delete_category_commit(cat_id) ==
    IF \E r \in score_rules : r.category_id = cat_id
    THEN Rejected(302, "error")
    ELSE /\ categories' = {c \in categories : c.id # cat_id}
         /\ transactions' =
                {IF t.category_id = cat_id THEN [t EXCEPT !.category_id = NULL] ELSE t
                    : t \in transactions}
         /\ goals' =
                {IF g.category_id = cat_id THEN [g EXCEPT !.category_id = NULL] ELSE g
                    : g \in goals}
         /\ Respond(302, "success")
         /\ UNCHANGED <<users, accounts, score_rules, seq>>

\* has_tx of delete_category
category_has_tx(u, cat_id) ==
    \E t \in transactions : t.user_id = u /\ t.category_id = cat_id

delete_category(u, cat_id) ==
    /\ u \in sessions
    /\ IF owned(categories, cat_id, u) = {}
       THEN NotFound
       ELSE IF category_has_tx(u, cat_id)
            THEN Rejected(302, "error")
            ELSE delete_category_commit(cat_id)
    /\ UNCHANGED <<sessions, inflight>>

-----------------------------------------------------------------------------
(* Accounts.                                                               *)

Account(id, u, name, type) == [id |-> id, user_id |-> u, name |-> name, type |-> type]

\* an accounts table without the constraint
uq_accounts_absent(u, name, self) == TRUE

\* UNIQUE (user_id, name) on accounts
uq_accounts_user_name(u, name, self) ==
    \A a \in accounts : ~(a.user_id = u /\ a.name = name /\ a.id # self)

new_account_commit(u, name, acc_type) ==
    IF uq_accounts_user_name(u, name, NULL)
    THEN /\ accounts' = accounts \cup {Account(seq.accounts + 1, u, name, acc_type)}
         /\ seq' = [seq EXCEPT !.accounts = @ + 1]
         /\ Respond(302, "success")
         /\ UNCHANGED <<users, categories, transactions, goals, score_rules>>
    ELSE Rejected(200, "error")

new_account_valid(u, name, acc_type) ==
    /\ name # <<>>
    /\ acc_type # <<>>
    /\ ~ \E a \in accounts : a.user_id = u /\ a.name = name

new_account(u, raw_name, raw_type) ==
    LET name == strip(raw_name)
        acc_type == strip(raw_type)
    IN  /\ u \in sessions
        /\ seq.accounts < MaxAccounts
        /\ IF new_account_valid(u, name, acc_type)
           THEN new_account_commit(u, name, acc_type)
           ELSE Rejected(200, "error")
        /\ UNCHANGED <<sessions, inflight>>

edit_account_commit(u, account_id, name, acc_type) ==
    IF owned(accounts, account_id, u) # {} /\ uq_accounts_user_name(u, name, account_id)
    THEN /\ accounts' =
                {IF a.id = account_id THEN [a EXCEPT !.name = name, !.type = acc_type] ELSE a
                    : a \in accounts}
         /\ Respond(302, "success")
         /\ UNCHANGED <<users, categories, transactions, goals, score_rules, seq>>
    ELSE Rejected(200, "error")

edit_account_valid(u, account_id, name, acc_type) ==
    /\ name # <<>>
    /\ acc_type # <<>>
    /\ ~ \E a \in accounts : a.user_id = u /\ a.name = name /\ a.id # account_id

edit_account(u, account_id, raw_name, raw_type) ==
    LET name == strip(raw_name)
        acc_type == strip(raw_type)
    IN  /\ u \in sessions
        /\ IF owned(accounts, account_id, u) = {}
           THEN NotFound
           ELSE IF edit_account_valid(u, account_id, name, acc_type)
                THEN edit_account_commit(u, account_id, name, acc_type)
                ELSE Rejected(200, "error")
        /\ UNCHANGED <<sessions, inflight>>

\* the ORM's flush of session.delete(account): the rows of the backref
\* Account.transactions get account_id NULL, then the DELETE
delete_account_commit(account_id) ==
    /\ accounts' = {a \in accounts : a.id # account_id}
    /\ transactions' =
            {IF t.account_id = account_id THEN [t EXCEPT !.account_id = NULL] ELSE t
                : t \in transactions}
    /\ Respond(302, "success")
    /\ UNCHANGED <<users, categories, goals, score_rules, seq>>

\* has_tx of delete_account
account_has_tx(u, account_id) ==
    \E t \in transactions : t.user_id = u /\ t.account_id = account_id

delete_account(u, account_id) ==
    /\ u \in sessions
    /\ IF owned(accounts, account_id, u) = {}
       THEN NotFound
       ELSE IF account_has_tx(u, account_id)
            THEN Rejected(302, "error")
            ELSE delete_account_commit(account_id)
    /\ UNCHANGED <<sessions, inflight>>

\* default_accounts of seed_defaults_for_user, as <<name, type>>; "Cartao"
\* stands for the source's name with a tilde on the a
default_accounts ==
    << <<"Carteira", "carteira">>, <<"Banco", "banco">>,
       <<"Cartao", "cartao">>, <<"Reserva", "reserva">> >>

\* a seeding that stops before the last default account
seed_rows_but_last(u, last_id) ==
    {Account(last_id + i, u, <<default_accounts[i][1]>>, <<default_accounts[i][2]>>)
        : i \in 1..(Len(default_accounts) - 1)}

\* the rows seed_defaults_for_user adds for a user without accounts
seed_rows(u, last_id) ==
    {Account(last_id + i, u, <<default_accounts[i][1]>>, <<default_accounts[i][2]>>)
        : i \in 1..Len(default_accounts)}

-----------------------------------------------------------------------------
(* Transactions (app.py).                                                  *)

Transaction(id, u, description, amount, type, date, category_id, account_id) ==
    [id |-> id, user_id |-> u, description |-> description, amount |-> amount,
     type |-> type, date |-> date, category_id |-> category_id,
     account_id |-> account_id]

\* FOREIGN KEY transactions.category_id -> categories.id and
\* transactions.account_id -> accounts.id, as the database checks them
fk_transaction(cats, accs, category_id, account_id) ==
    /\ category_id = NULL \/ \E c \in cats : c.id = category_id
    /\ account_id = NULL \/ \E a \in accs : a.id = account_id

valid_type(tx_type) == tx_type \in {<<"entrada">>, <<"saida">>}

\* the validations new_transaction and edit_transaction share
transaction_form_valid(form) ==
    /\ strip(form.description) # <<>>
    /\ safe_float_br(strip(form.amount)).ok
    /\ valid_type(strip(form.type))

\* the date a form yields: the parsed date, or `fallback`
form_date(date_str, fallback) ==
    IF strip(date_str) # <<>> /\ strptime_ymd(strip(date_str)).ok
    THEN strptime_ymd(strip(date_str)).val
    ELSE fallback

new_transaction(u, form, now) ==
    /\ u \in sessions
    /\ seq.transactions < MaxTransactions
    /\ IF ~transaction_form_valid(form)
       THEN Rejected(200, "error")
       ELSE IF ~fk_transaction(categories, accounts, form.category_id, form.account_id)
            THEN Rejected(200, "error")
            ELSE /\ transactions' = transactions \cup
                        {Transaction(seq.transactions + 1, u, strip(form.description),
                                     safe_float_br(strip(form.amount)).val,
                                     strip(form.type), form_date(form.date, now),
                                     form.category_id, form.account_id)}
                 /\ seq' = [seq EXCEPT !.transactions = @ + 1]
                 /\ Respond(302, "success")
                 /\ UNCHANGED <<users, accounts, categories, goals, score_rules>>
    /\ UNCHANGED <<sessions, inflight>>

edit_transaction(u, tx_id, form) ==
    /\ u \in sessions
    /\ IF owned(transactions, tx_id, u) = {}
       THEN NotFound
       ELSE IF ~transaction_form_valid(form)
            THEN Rejected(200, "error")
            ELSE IF ~fk_transaction(categories, accounts, form.category_id, form.account_id)
                 THEN Rejected(200, "error")
                 ELSE /\ transactions' =
                            {IF t.id = tx_id
                             THEN Transaction(t.id, u, strip(form.description),
                                              safe_float_br(strip(form.amount)).val,
                                              strip(form.type), form_date(form.date, t.date),
                                              form.category_id, form.account_id)
                             ELSE t : t \in transactions}
                      /\ Respond(302, "success")
                      /\ UNCHANGED <<users, accounts, categories, goals, score_rules, seq>>
    /\ UNCHANGED <<sessions, inflight>>

delete_transaction(u, tx_id) ==
    /\ u \in sessions
    /\ IF owned(transactions, tx_id, u) = {}
       THEN NotFound
       ELSE /\ transactions' = {t \in transactions : t.id # tx_id}
            /\ Respond(302, "success")
            /\ UNCHANGED <<users, accounts, categories, goals, score_rules, seq>>
    /\ UNCHANGED <<sessions, inflight>>

-----------------------------------------------------------------------------
(* Score rules (routes/score.py).                                          *)

ScoreRule(id, u, category_id, monthly_limit, warning_pct, active) ==
    [id |-> id, user_id |-> u, category_id |-> category_id,
     monthly_limit |-> monthly_limit, warning_pct |-> warning_pct, active |-> active]

zero == decimal(0, 0)

\* an uncaught exception: the request ends 500 and its session is rolled back
ServerError == Respond(500, "none") /\ UNCHANGED <<tables, seq>>

\* the texts of the score form as floats: float(text.replace(",", "."))
score_float(text) == float(replace(text, ",", "."))

new_rule(u, category_id, limit_str, pct_str) ==
    LET monthly_limit == score_float(limit_str)
        warning_pct == score_float(pct_str)
        existing == {r \in score_rules : r.user_id = u /\ r.category_id = category_id}
    IN  /\ u \in sessions
        /\ IF ~monthly_limit.ok \/ ~warning_pct.ok
           THEN Rejected(200, "danger")
           ELSE IF le(monthly_limit.val, zero)
           THEN Rejected(200, "danger")
           ELSE IF le(warning_pct.val, zero) \/ le(decimal(15, 1), warning_pct.val)
           THEN Rejected(200, "danger")
           ELSE IF existing # {}
           THEN /\ score_rules' =
                       {IF r \in existing
                        THEN [r EXCEPT !.monthly_limit = monthly_limit.val,
                                       !.warning_pct = warning_pct.val,
                                       !.active = TRUE]
                        ELSE r : r \in score_rules}
                /\ Respond(302, "success")
                /\ UNCHANGED <<users, accounts, categories, transactions, goals, seq>>
           ELSE IF ~ \E c \in categories : c.id = category_id
           THEN ServerError
           ELSE /\ seq.score_rules < MaxScoreRules
                /\ score_rules' = score_rules \cup
                       {ScoreRule(seq.score_rules + 1, u, category_id,
                                  monthly_limit.val, warning_pct.val, TRUE)}
                /\ seq' = [seq EXCEPT !.score_rules = @ + 1]
                /\ Respond(302, "success")
                /\ UNCHANGED <<users, accounts, categories, transactions, goals>>
        /\ UNCHANGED <<sessions, inflight>>

edit_rule(u, rule_id, limit_str, pct_str) ==
    LET monthly_limit == score_float(limit_str)
        warning_pct == score_float(pct_str)
    IN  /\ u \in sessions
        /\ IF owned(score_rules, rule_id, u) = {}
           THEN Rejected(302, "danger")
           ELSE IF ~monthly_limit.ok \/ ~warning_pct.ok
           THEN Rejected(200, "danger")
           ELSE IF le(monthly_limit.val, zero)
           THEN Rejected(200, "danger")
           ELSE /\ score_rules' =
                       {IF r.id = rule_id
                        THEN [r EXCEPT !.monthly_limit = monthly_limit.val,
                                       !.warning_pct = warning_pct.val,
                                       !.active = TRUE]
                        ELSE r : r \in score_rules}
                /\ Respond(302, "success")
                /\ UNCHANGED <<users, accounts, categories, transactions, goals, seq>>
        /\ UNCHANGED <<sessions, inflight>>

delete_rule(u, rule_id) ==
    /\ u \in sessions
    /\ IF owned(score_rules, rule_id, u) = {}
       THEN Rejected(302, "danger")
       ELSE /\ score_rules' = {r \in score_rules : r.id # rule_id}
            /\ Respond(302, "success")
            /\ UNCHANGED <<users, accounts, categories, transactions, goals, seq>>
    /\ UNCHANGED <<sessions, inflight>>

-----------------------------------------------------------------------------
(* Transactions (routes/transactions.py, the transactions blueprint).      *)

\* NULL in the date column
NoDate == datetime(0, 0, 0, 0)

\* _parse_date_ymd(date_str): the date, or None
parse_date_ymd(date_str) ==
    IF date_str # <<>> /\ strptime_ymd(date_str).ok THEN strptime_ymd(date_str).val
    ELSE NoDate

\* Column(DateTime, default=datetime.utcnow): an INSERT of a row whose date
\* is None leaves the column out, and the default gives the time of the insert
date_default(date, now) == IF date = NoDate THEN now ELSE date

\* transactions.new_transaction: description and amount are checked, the
\* type is stored as typed, and the COMMIT is not guarded
transactions_new_transaction(u, form, now) ==
    /\ u \in sessions
    /\ seq.transactions < MaxTransactions
    /\ IF strip(form.description) = <<>> \/ ~safe_float_br(strip(form.amount)).ok
       THEN Rejected(200, "error")
       ELSE IF ~fk_transaction(categories, accounts, form.category_id, form.account_id)
            THEN ServerError
            ELSE /\ transactions' = transactions \cup
                        {Transaction(seq.transactions + 1, u, strip(form.description),
                                     safe_float_br(strip(form.amount)).val,
                                     strip(form.type),
                                     date_default(parse_date_ymd(strip(form.date)), now),
                                     form.category_id, form.account_id)}
                 /\ seq' = [seq EXCEPT !.transactions = @ + 1]
                 /\ Respond(302, "success")
                 /\ UNCHANGED <<users, accounts, categories, goals, score_rules>>
    /\ UNCHANGED <<sessions, inflight>>

\* transactions.edit_transaction: the fields are assigned as typed; an
\* unparsable amount raises out of the handler
transactions_edit_transaction(u, tx_id, form) ==
    /\ u \in sessions
    /\ IF owned(transactions, tx_id, u) = {}
       THEN NotFound
       ELSE IF ~safe_float_br(form.amount).ok
            THEN ServerError
            ELSE IF ~fk_transaction(categories, accounts, form.category_id, form.account_id)
                 THEN ServerError
                 ELSE /\ transactions' =
                            {IF t.id = tx_id
                             THEN Transaction(t.id, u, form.description,
                                              safe_float_br(form.amount).val,
                                              form.type, parse_date_ymd(form.date),
                                              form.category_id, form.account_id)
                             ELSE t : t \in transactions}
                      /\ Respond(302, "success")
                      /\ UNCHANGED <<users, accounts, categories, goals, score_rules, seq>>
    /\ UNCHANGED <<sessions, inflight>>

-----------------------------------------------------------------------------
(* The listings: what a handler hands to its template for current_user u.  *)

\* list_transactions without filters: every page of the pagination
list_transactions_rows(u) == {t \in transactions : t.user_id = u}

list_categories_rows(u) == {c \in categories : c.user_id = u}

list_accounts_rows(u) == {a \in accounts : a.user_id = u}

\* list_score: the (rule, category) pairs of the join
\* ScoreRule JOIN Category ON Category.id = ScoreRule.category_id
list_score_rows(u) ==
    {<<r, c>> \in score_rules \X categories :
        r.user_id = u /\ r.active /\ c.id = r.category_id}

\* the month window of month_range_from_str for a date in it
in_month(date, y, m) == date.y = y /\ date.m = m

\* tx.category and tx.account: the rows the relationships load
tx_category(t) == {c \in categories : c.id = t.category_id}
tx_account(t) == {a \in accounts : a.id = t.account_id}

\* export_csv: per exported transaction the row and the category and account
\* rows whose names are written beside it
export_csv_rows(u, y, m) ==
    {[tx |-> t, category |-> tx_category(t), account |-> tx_account(t)]
        : t \in {x \in transactions : x.user_id = u /\ in_month(x.date, y, m)}}

\* a GET of a listing: 200, nothing written
listing(u) ==
    /\ u \in sessions
    /\ Respond(200, "none")
    /\ UNCHANGED <<tables, seq, sessions, inflight>>

-----------------------------------------------------------------------------
(* The dashboard (index of app.py and of routes/dashboard.py).             *)

\* a + b, -a on floats
add(a, b) ==
    LET e == IF a.e >= b.e THEN a.e ELSE b.e
    IN  decimal(a.m * pow10(e - a.e) + b.m * pow10(e - b.e), e)

neg(a) == decimal(-a.m, a.e)

\* f"{n:02d}", f"{n:04d}"
pad2(n) == <<Digits[((n \div 10) % 10) + 1], Digits[(n % 10) + 1]>>
pad4(n) == pad2(n \div 100) \o pad2(n % 100)

\* f"{now.year:04d}-{now.month:02d}"
format_month_year(now) == pad4(now.y) \o <<"-">> \o pad2(now.m)

\* strftime("%Y-%m-%d")
strftime_ymd(date) == pad4(date.y) \o <<"-">> \o pad2(date.m) \o <<"-">> \o pad2(date.d)

\* a < b on datetimes
before(a, b) ==
    \/ a.y < b.y
    \/ a.y = b.y /\ a.m < b.m
    \/ a.y = b.y /\ a.m = b.m /\ a.d < b.d
    \/ a.y = b.y /\ a.m = b.m /\ a.d = b.d /\ a.t < b.t

\* day + timedelta(days=1)
timedelta_day(day) ==
    IF day.d < days_in_month(day.y, day.m) THEN datetime(day.y, day.m, day.d + 1, day.t)
    ELSE IF day.m < 12 THEN datetime(day.y, day.m + 1, 1, day.t)
    ELSE datetime(day.y + 1, 1, 1, day.t)

\* the start a 'YYYY-MM' text yields, or that of the current month
month_start(month_str, now) ==
    LET dash == {i \in 1..Len(month_str) : month_str[i] = "-"}
        i1 == IF dash = {} THEN 0 ELSE CHOOSE i \in dash : TRUE
        ys == SubSeq(month_str, 1, i1 - 1)
        ms == SubSeq(month_str, i1 + 1, Len(month_str))
        ok == /\ Cardinality(dash) = 1
              /\ ys # <<>> /\ ms # <<>>
              /\ \A i \in 1..Len(month_str) : i \in dash \/ is_digit(month_str[i])
              /\ digits_value(ys) \in 1..9999 /\ digits_value(ms) \in 1..12
    IN  IF ok THEN datetime(digits_value(ys), digits_value(ms), 1, 0)
        ELSE datetime(now.y, now.m, 1, 0)

\* a month range whose December ends in January of the same year
month_range_same_year(month_str, now) ==
    LET start == month_start(month_str, now)
    IN  [start |-> start,
         next_month |-> IF start.m = 12 THEN datetime(start.y, 1, 1, 0)
                        ELSE datetime(start.y, start.m + 1, 1, 0)]

\* month_range_from_str(month_str): (start, next_month)
month_range_from_str(month_str, now) ==
    LET start == month_start(month_str, now)
    IN  [start |-> start,
         next_month |-> IF start.m = 12 THEN datetime(start.y + 1, 1, 1, 0)
                        ELSE datetime(start.y, start.m + 1, 1, 0)]

\* the range index computes for the month of `now`
month_of(now) == month_range_from_str(format_month_year(now), now)

\* Transaction.date >= start_month AND Transaction.date < next_month
in_range(date, range) == ~before(date, range.start) /\ before(date, range.next_month)

\* SUM(amount) of a set of transactions, coalesced to 0.0
RECURSIVE sum_amount(_)
sum_amount(txs) ==
    IF txs = {} THEN zero
    ELSE LET t == CHOOSE x \in txs : TRUE IN add(t.amount, sum_amount(txs \ {t}))

month_total(u, tx_type, now) ==
    sum_amount({t \in transactions :
                   t.user_id = u /\ t.type = tx_type /\ in_range(t.date, month_of(now))})

total_entradas_mes(u, now) == month_total(u, <<"entrada">>, now)
total_saidas_mes(u, now) == month_total(u, <<"saida">>, now)

\* the transactions of the month
tx_month(u, now) ==
    {t \in transactions : t.user_id = u /\ in_range(t.date, month_of(now))}

\* sign * float(tx.amount): 1 for "entrada", -1 for every other type
signed_amount(t) == IF t.type = <<"entrada">> THEN t.amount ELSE neg(t.amount)

\* daily_delta.get(day_str, 0.0)
RECURSIVE daily_delta(_, _)
daily_delta(txs, day_str) ==
    LET of_day == {t \in txs : strftime_ymd(t.date) = day_str}
        t == CHOOSE x \in of_day : TRUE
    IN  IF of_day = {} THEN zero
        ELSE add(signed_amount(t), daily_delta(txs \ {t}, day_str))

\* the while loop of index: the entries from `day` up to next_month
RECURSIVE line_from(_, _, _, _)
line_from(day, next_month, running, txs) ==
    IF before(day, next_month)
    THEN LET saldo == add(running, daily_delta(txs, strftime_ymd(day)))
         IN  <<[date |-> strftime_ymd(day), saldo |-> saldo]>>
                 \o line_from(timedelta_day(day), next_month, saldo, txs)
    ELSE <<>>

line_chart_data(u, now) ==
    line_from(month_of(now).start, month_of(now).next_month, zero, tx_month(u, now))

Goal(id, u, name, type, target_amount, month_year, category_id) ==
    [id |-> id, user_id |-> u, name |-> name, type |-> type,
     target_amount |-> target_amount, month_year |-> month_year,
     category_id |-> category_id]

\* NULL in goals.month_year
NoMonth == <<"NULL">>

\* current_value of goal g
current_value(u, g, now) ==
    IF g.type = <<"gasto_mensal">> THEN total_saidas_mes(u, now)
    ELSE IF g.type = <<"economia">>
    THEN add(total_entradas_mes(u, now), neg(total_saidas_mes(u, now)))
    ELSE IF g.type = <<"categoria">> /\ g.category_id # NULL
    THEN sum_amount({t \in transactions :
                        /\ t.user_id = u /\ t.type = <<"saida">>
                        /\ t.category_id = g.category_id
                        /\ in_range(t.date, month_of(now))})
    ELSE zero

\* round(n / d, 1) for d > 0: the nearest tenth, a tie to the even one
round1(n, d) ==
    LET q == (10 * n) \div d
        r == (10 * n) % d
    IN  IF 2 * r > d \/ (2 * r = d /\ q % 2 = 1) THEN decimal(q + 1, 1) ELSE decimal(q, 1)

\* round(min(100.0, (current_value / target) * 100.0) if target > 0 else 0.0, 1)
percent(current, target) ==
    LET n == 100 * current.m * pow10(target.e)
        d == target.m * pow10(current.e)
    IN  IF ~lt(zero, target) THEN zero
        ELSE IF n >= 100 * d THEN decimal(100, 0)
        ELSE round1(n, d)

\* goals_progress: per goal of the month, or of no month, its percent
goals_progress(u, now) ==
    {[goal |-> g, target |-> g.target_amount, current |-> current_value(u, g, now),
      percent |-> percent(current_value(u, g, now), g.target_amount)]
        : g \in {x \in goals : /\ x.user_id = u
                                /\ x.month_year \in {format_month_year(now), NoMonth}}}

\* GET /: the dashboard of the month of `now`; 200, nothing written
index(u, now) ==
    /\ u \in sessions
    /\ Respond(200, "none")
    /\ UNCHANGED <<tables, seq, sessions, inflight>>

-----------------------------------------------------------------------------
(* The score list (list_score of routes/score.py).                         *)

\* month_range_dt(year, month): (start_dt, next_dt)
month_range_dt(year, month) ==
    [start |-> datetime(year, month, 1, 0),
     next_month |-> IF month = 12 THEN datetime(year + 1, 1, 1, 0)
                    ELSE datetime(year, month + 1, 1, 0)]

\* request.args.get("year", type=int) or now.year
year_arg(year, now) == IF year = NULL THEN now.y ELSE year

\* request.args.get("m", type=int) or now.month, brought into 1..12
month_arg(m, now) ==
    LET month == IF m = NULL THEN now.m ELSE m
    IN  IF month < 1 THEN 1 ELSE IF month > 12 THEN 12 ELSE month

\* spent_map.get(cat.id, 0.0): the owner's expenses of the month in the category
spent_of(u, cat_id, range) ==
    sum_amount({t \in transactions :
                   /\ t.user_id = u /\ t.type = <<"saida">>
                   /\ t.category_id = cat_id /\ in_range(t.date, range)})

\* pct = (spent / limit) if limit > 0 else 0.0, as the fraction n / d, d > 0
pct_of(spent, limit) ==
    IF lt(zero, limit)
    THEN [n |-> spent.m * pow10(limit.e), d |-> limit.m * pow10(spent.e)]
    ELSE [n |-> 0, d |-> 1]

\* pct > 1, pct >= warn_pct
pct_gt_1(pct) == pct.n > pct.d
pct_ge(pct, warn_pct) == pct.n * pow10(warn_pct.e) >= warn_pct.m * pct.d

\* a status that is yellow only above the warning fraction
score_status_above(pct, warn_pct) ==
    IF pct_gt_1(pct) THEN "red"
    ELSE IF pct.n * pow10(warn_pct.e) > warn_pct.m * pct.d THEN "yellow"
    ELSE "green"

score_status(pct, warn_pct) ==
    IF pct_gt_1(pct) THEN "red"
    ELSE IF pct_ge(pct, warn_pct) THEN "yellow"
    ELSE "green"

\* items of list_score
score_items(u, year, m, now) ==
    LET range == month_range_dt(year_arg(year, now), month_arg(m, now))
    IN  {[rule |-> p[1], category |-> p[2],
          limit |-> p[1].monthly_limit,
          spent |-> spent_of(u, p[2].id, range),
          pct |-> pct_of(spent_of(u, p[2].id, range), p[1].monthly_limit),
          status |-> score_status(pct_of(spent_of(u, p[2].id, range), p[1].monthly_limit),
                                  p[1].warning_pct),
          remaining |-> add(p[1].monthly_limit, neg(spent_of(u, p[2].id, range)))]
            : p \in list_score_rows(u)}

\* GET /score?year=&m=: 200, nothing written
list_score(u, year, m, now) ==
    /\ u \in sessions
    /\ Respond(200, "none")
    /\ UNCHANGED <<tables, seq, sessions, inflight>>

-----------------------------------------------------------------------------
(* The transaction list (list_transactions of app.py and of the            *)
(* transactions blueprint).  The filters of a query are [type, category_id,*)
(* account_id, start, end, min, max]: <<>>, NULL, NoDate and a float that  *)
(* is not ok stand for a filter that is not applied.                       *)

per_page == 10

\* the WHERE clauses of the statement; a comparison with a NULL date is not
\* true
list_where(u, f) ==
    {t \in transactions :
        /\ t.user_id = u
        /\ f.type # <<>> => t.type = f.type
        /\ f.category_id # NULL => t.category_id = f.category_id
        /\ f.account_id # NULL => t.account_id = f.account_id
        /\ f.start # NoDate => t.date # NoDate /\ ~before(t.date, f.start)
        /\ f.end # NoDate => t.date # NoDate /\ before(t.date, timedelta_day(f.end))
        /\ f.min.ok => le(f.min.val, t.amount)
        /\ f.max.ok => le(t.amount, f.max.val)}

\* a comes no later than b in ORDER BY date DESC, NULL dates first
date_desc(a, b) == a = NoDate \/ (b # NoDate /\ ~before(a, b))

\* ORDER BY date DESC: the orders the database may return the rows in; rows
\* of equal date come in any order, and not in the same one for every query
RECURSIVE order_by_date_desc(_)
order_by_date_desc(txs) ==
    IF txs = {} THEN {<<>>}
    ELSE UNION {{<<t>> \o s : s \in order_by_date_desc(txs \ {t})}
                   : t \in {x \in txs : \A y \in txs : date_desc(x.date, y.date)}}

\* db.paginate(stmt, page=page, per_page=per_page, error_out=False).items
paginate(rows, page) ==
    LET p == IF page < 1 THEN 1 ELSE page
        last == IF p * per_page < Len(rows) THEN p * per_page ELSE Len(rows)
    IN  SubSeq(rows, (p - 1) * per_page + 1, last)

\* the response of a list: the items handed to the template
RespondList(flash, items, args) ==
    resp' = [code |-> 200, flash |-> flash, items |-> items, args |-> args]

\* list_transactions of app.py
list_transactions(u, args) ==
    LET start == IF args.start_date # <<>> THEN strptime_ymd(args.start_date)
                 ELSE [ok |-> TRUE, val |-> NoDate]
        end == IF args.end_date # <<>> THEN strptime_ymd(args.end_date)
               ELSE [ok |-> TRUE, val |-> NoDate]
        f == [type |-> IF valid_type(args.type) THEN args.type ELSE <<>>,
              category_id |-> args.category_id, account_id |-> args.account_id,
              start |-> IF start.ok THEN start.val ELSE NoDate,
              end |-> IF end.ok THEN end.val ELSE NoDate,
              min |-> float(args.min_amount), max |-> float(args.max_amount)]
    IN  /\ u \in sessions
        /\ \E rows \in order_by_date_desc(list_where(u, f)) :
               RespondList(IF start.ok /\ end.ok THEN "none" ELSE "error",
                           paginate(rows, args.page), args)
        /\ UNCHANGED <<tables, seq, sessions, inflight>>

\* transactions.list_transactions
transactions_list_transactions(u, args) ==
    LET f == [type |-> IF valid_type(args.type) THEN args.type ELSE <<>>,
              category_id |-> args.category_id, account_id |-> args.account_id,
              start |-> parse_date_ymd(args.start_date),
              end |-> parse_date_ymd(args.end_date),
              min |-> safe_float_br(args.min_amount),
              max |-> safe_float_br(args.max_amount)]
    IN  /\ u \in sessions
        /\ \E rows \in order_by_date_desc(list_where(u, f)) :
               RespondList("none", paginate(rows, args.page), args)
        /\ UNCHANGED <<tables, seq, sessions, inflight>>

-----------------------------------------------------------------------------
(* CSV import (app.py).  A file is what csv.DictReader makes of it:        *)
(* [fieldnames, rows], a row being the sequence of its cells.              *)

\* row.get(fieldname) of a DictReader row: the cell of the last column of
\* that name; a missing cell or column gives None, which `or ""` makes ""
row_get(file, row, fieldname) ==
    LET cols == {i \in 1..Len(file.fieldnames) : file.fieldnames[i] = fieldname}
        col == CHOOSE i \in cols : \A j \in cols : j <= i
    IN  IF cols = {} \/ col > Len(row) THEN <<>> ELSE row[col]

\* headers_lower of import_transactions
headers_lower(file) == [i \in 1..Len(file.fieldnames) |-> lower(strip(file.fieldnames[i]))]

\* get(row, key) of import_transactions
get(file, row, key) ==
    LET hits == {i \in 1..Len(file.fieldnames) : lower(strip(file.fieldnames[i])) = key}
        first == CHOOSE i \in hits : \A j \in hits : i <= j
    IN  IF \E i \in 1..Len(file.fieldnames) : file.fieldnames[i] = key
        THEN row_get(file, row, key)
        ELSE IF hits = {} THEN <<>>
        ELSE row_get(file, row, strip(file.fieldnames[first]))

required == {<<"data">>, <<"descricao">>, <<"tipo">>, <<"valor">>}

has_required(file) ==
    \A r \in required : \E i \in 1..Len(file.fieldnames) : headers_lower(file)[i] = r

\* whether a row passes the four checks of the loop body
row_valid(file, row) ==
    /\ strip(get(file, row, <<"descricao">>)) # <<>>
    /\ valid_type(lower(strip(get(file, row, <<"tipo">>))))
    /\ safe_float_br(strip(get(file, row, <<"valor">>))).ok
    /\ strptime_ymd(strip(get(file, row, <<"data">>))).ok

\* one pass of the loop body over `row`, on the session state st: the tables
\* as the session sees them after its flushes, the sequences and the counts
import_row(u, file, row, st) ==
    IF ~row_valid(file, row)
    THEN [st EXCEPT !.skipped = @ + 1,
                    !.errors = IF @ < 10 THEN @ + 1 ELSE @]
    ELSE
    LET cat_name == strip(get(file, row, <<"categoria">>))
        acc_name == strip(get(file, row, <<"conta">>))
        cat_hit == {c \in st.categories : c.user_id = u /\ c.name = cat_name}
        acc_hit == {a \in st.accounts : a.user_id = u /\ a.name = acc_name}
        new_cat == cat_name # <<>> /\ cat_hit = {}
        new_acc == acc_name # <<>> /\ acc_hit = {}
        cat_id == IF cat_name = <<>> THEN NULL
                  ELSE IF new_cat THEN st.seq.categories + 1
                  ELSE (CHOOSE c \in cat_hit : TRUE).id
        acc_id == IF acc_name = <<>> THEN NULL
                  ELSE IF new_acc THEN st.seq.accounts + 1
                  ELSE (CHOOSE a \in acc_hit : TRUE).id
    IN  [st EXCEPT
            !.categories = IF new_cat THEN @ \cup {Category(cat_id, u, cat_name)} ELSE @,
            !.accounts = IF new_acc THEN @ \cup {Account(acc_id, u, acc_name, <<"banco">>)}
                         ELSE @,
            !.transactions = @ \cup
                {Transaction(st.seq.transactions + 1, u,
                             strip(get(file, row, <<"descricao">>)),
                             safe_float_br(strip(get(file, row, <<"valor">>))).val,
                             lower(strip(get(file, row, <<"tipo">>))),
                             strptime_ymd(strip(get(file, row, <<"data">>))).val,
                             cat_id, acc_id)},
            !.seq = [@ EXCEPT !.categories = IF new_cat THEN @ + 1 ELSE @,
                              !.accounts = IF new_acc THEN @ + 1 ELSE @,
                              !.transactions = @ + 1],
            !.imported = @ + 1]

\* the loop of import_transactions over the rows
RECURSIVE import_rows(_, _, _, _)
import_rows(u, file, rows, st) ==
    IF rows = <<>> THEN st
    ELSE import_rows(u, file, Tail(rows), import_row(u, file, Head(rows), st))

\* the session state before the loop
import_start ==
    [categories |-> categories, accounts |-> accounts, transactions |-> transactions,
     seq |-> seq, imported |-> 0, skipped |-> 0, errors |-> 0]

within_bounds(s) ==
    /\ s.categories <= MaxCategories
    /\ s.accounts <= MaxAccounts
    /\ s.transactions <= MaxTransactions

\* the rows the loop added to the session
import_plan(st) ==
    [categories |-> st.categories \ categories, accounts |-> st.accounts \ accounts,
     transactions |-> st.transactions \ transactions]

\* a COMMIT that stores every row that fits and drops the others
import_commit_row_by_row(u, plan, flash) ==
    LET cats == {c \in plan.categories : uq_categories_user_name(u, c.name, NULL)}
        accs == {a \in plan.accounts : uq_accounts_user_name(u, a.name, NULL)}
    IN  /\ categories' = categories \cup cats
        /\ accounts' = accounts \cup accs
        /\ transactions' = transactions \cup
               {t \in plan.transactions :
                   fk_transaction(categories \cup cats, accounts \cup accs,
                                  t.category_id, t.account_id)}
        /\ Respond(302, flash)
        /\ UNCHANGED <<users, goals, score_rules>>

\* write phase of import_transactions: the COMMIT of the rows the loop added,
\* under UNIQUE (user_id, name) and the foreign keys; a failure rolls all back
import_commit(u, plan, flash) ==
    IF /\ \A c \in plan.categories : uq_categories_user_name(u, c.name, NULL)
       /\ \A a \in plan.accounts : uq_accounts_user_name(u, a.name, NULL)
       /\ \A t \in plan.transactions :
              fk_transaction(categories \cup plan.categories,
                             accounts \cup plan.accounts, t.category_id, t.account_id)
    THEN /\ categories' = categories \cup plan.categories
         /\ accounts' = accounts \cup plan.accounts
         /\ transactions' = transactions \cup plan.transactions
         /\ Respond(302, flash)
         /\ UNCHANGED <<users, goals, score_rules>>
    ELSE Respond(302, "error") /\ UNCHANGED tables

import_flash(st) == IF st.errors > 0 THEN "warning" ELSE "success"

import_transactions(u, file) ==
    LET st == import_rows(u, file, file.rows, import_start) IN
    /\ u \in sessions
    /\ IF file.fieldnames = <<>> \/ ~has_required(file)
       THEN Rejected(302, "error")
       ELSE /\ within_bounds(st.seq)
            /\ seq' = st.seq
            /\ import_commit(u, import_plan(st), import_flash(st))
    /\ UNCHANGED <<sessions, inflight>>

-----------------------------------------------------------------------------
(* The uploaded file.  Its text is a sequence of lines, a line a sequence  *)
(* of tokens, the delimiters ";" and "," being tokens of their own; no     *)
(* cell is quoted.                                                         *)

\* the cells of a line between the delimiters d, as csv.reader splits it
RECURSIVE split(_, _)
split(line, d) ==
    IF line = <<>> THEN <<<<>>>>
    ELSE LET rest == split(Tail(line), d) IN
         IF Head(line) = d THEN <<<<>>>> \o rest
         ELSE <<<<Head(line)>> \o Head(rest)>> \o Tail(rest)

\* str.count(d)
count(line, d) == Cardinality({i \in 1..Len(line) : line[i] = d})

\* the delimiter import_transactions of app.py picks from the first line
delimiter(raw) ==
    LET first_line == IF raw = <<>> THEN <<>> ELSE Head(raw)
    IN  IF count(first_line, ";") >= count(first_line, ",") THEN ";" ELSE ","

\* csv.DictReader(StringIO(raw), delimiter=d): the first line that is not
\* empty gives the fieldnames, every later one that is not empty a row
DictReader(raw, d) ==
    LET lines == SelectSeq(raw, LAMBDA l : l # <<>>)
    IN  IF lines = <<>> THEN [fieldnames |-> <<>>, rows |-> <<>>]
        ELSE [fieldnames |-> split(Head(lines), d),
              rows |-> [i \in 1..(Len(lines) - 1) |-> split(lines[i + 1], d)]]

\* the POST of import_transactions of app.py on the text of the file
post_import_transactions(u, raw) == import_transactions(u, DictReader(raw, delimiter(raw)))

-----------------------------------------------------------------------------
(* CSV import (routes/transactions.py).                                    *)

\* row.get(a) or row.get(b)
get_or(file, row, a, b) ==
    IF row_get(file, row, a) # <<>> THEN row_get(file, row, a) ELSE row_get(file, row, b)

\* whether the loop body of transactions.import_transactions adds the row
transactions_row_valid(file, row) ==
    /\ safe_float_br(get_or(file, row, <<"valor">>, <<"amount">>)).ok
    /\ strip(get_or(file, row, <<"descricao">>, <<"description">>)) # <<>>
    /\ valid_type(lower(strip(get_or(file, row, <<"tipo">>, <<"type">>))))

\* one pass of the loop body of transactions.import_transactions
transactions_import_row(u, file, row, st, now) ==
    IF ~transactions_row_valid(file, row)
    THEN [st EXCEPT !.skipped = @ + 1]
    ELSE [st EXCEPT
            !.transactions = @ \cup
                {Transaction(st.seq.transactions + 1, u,
                             strip(get_or(file, row, <<"descricao">>, <<"description">>)),
                             safe_float_br(get_or(file, row, <<"valor">>, <<"amount">>)).val,
                             lower(strip(get_or(file, row, <<"tipo">>, <<"type">>))),
                             date_default(
                                 parse_date_ymd(get_or(file, row, <<"data">>, <<"date">>)),
                                 now),
                             NULL, NULL)},
            !.seq = [@ EXCEPT !.transactions = @ + 1],
            !.imported = @ + 1]

RECURSIVE transactions_import_rows(_, _, _, _, _)
transactions_import_rows(u, file, rows, st, now) ==
    IF rows = <<>> THEN st
    ELSE transactions_import_rows(u, file, Tail(rows),
                                  transactions_import_row(u, file, Head(rows), st, now), now)

\* transactions.import_transactions: the reader splits at commas, there is
\* no check of the header, and the COMMIT is not guarded
transactions_import_transactions(u, raw, now) ==
    LET file == DictReader(raw, ",")
        st == transactions_import_rows(u, file, file.rows, import_start, now)
    IN  /\ u \in sessions
        /\ within_bounds(st.seq)
        /\ seq' = st.seq
        /\ transactions' = st.transactions
        /\ Respond(302, "success")
        /\ UNCHANGED <<users, accounts, categories, goals, score_rules, sessions, inflight>>

-----------------------------------------------------------------------------
(* The month export (app.py).                                              *)

\* csv.writer(output, delimiter=d).writerow(cells)
RECURSIVE writerow(_, _)
writerow(cells, d) ==
    IF cells = <<>> THEN <<>>
    ELSE IF Len(cells) = 1 THEN Head(cells)
    ELSE Head(cells) \o <<d>> \o writerow(Tail(cells), d)

\* str(n) for n >= 0
RECURSIVE digits_of(_)
digits_of(n) ==
    IF n < 10 THEN <<Digits[n + 1]>>
    ELSE digits_of(n \div 10) \o <<Digits[(n % 10) + 1]>>

\* f"{x:.2f}": two decimals, the nearest, a tie going to the even one
format_2f(x) ==
    LET a == IF x.m < 0 THEN -x.m ELSE x.m
        unit == IF x.e <= 2 THEN 1 ELSE pow10(x.e - 2)
        q == IF x.e <= 2 THEN a * pow10(2 - x.e) ELSE a \div unit
        r == IF x.e <= 2 THEN 0 ELSE a % unit
        cents == IF 2 * r > unit \/ (2 * r = unit /\ q % 2 = 1) THEN q + 1 ELSE q
    IN  (IF x.m < 0 THEN <<"-">> ELSE <<>>)
            \o digits_of(cents \div 100) \o <<".">> \o pad2(cents % 100)

\* .order_by(Transaction.date.asc()).all()
RECURSIVE order_by_date_asc(_)
order_by_date_asc(txs) ==
    IF txs = {} THEN <<>>
    ELSE LET t == CHOOSE x \in txs : \A y \in txs : ~before(y.date, x.date)
         IN  <<t>> \o order_by_date_asc(txs \ {t})

export_header ==
    <<<<"Data">>, <<"Descrição">>, <<"Tipo">>, <<"Categoria">>, <<"Conta">>, <<"Valor">>>>

\* the row export_csv writes for tx
export_row(tx) ==
    <<strftime_ymd(tx.date), tx.description, tx.type,
      IF tx_category(tx) = {} THEN <<>> ELSE (CHOOSE c \in tx_category(tx) : TRUE).name,
      IF tx_account(tx) = {} THEN <<>> ELSE (CHOOSE a \in tx_account(tx) : TRUE).name,
      format_2f(tx.amount)>>

\* export_csv: the text of the file for the month of month_str
export_csv(u, month_str, now) ==
    LET txs == order_by_date_asc({t \in transactions :
                   t.user_id = u /\ in_range(t.date, month_range_from_str(month_str, now))})
    IN  <<writerow(export_header, ";")>>
            \o [i \in 1..Len(txs) |-> writerow(export_row(txs[i]), ";")]

-----------------------------------------------------------------------------
(* Authentication (app.py, routes/auth.py).                                *)

User(id, name, email, password_hash) ==
    [id |-> id, name |-> name, email |-> email, password_hash |-> password_hash]

\* werkzeug's salted hash: all the model keeps of it is which password it
\* was made from
generate_password_hash(password) == <<"pbkdf2">> \o password

check_password_hash(hash, password) == hash = generate_password_hash(password)

\* seed_defaults_for_user(user_id) on the accounts table `accs`: the table
\* after it
seed_defaults_for_user(accs, u, last_id) ==
    IF {a \in accs : a.user_id = u} = {} THEN accs \cup seed_rows(u, last_id) ELSE accs

\* the fields of the form with the email as it was typed, not lower-cased
register_fields_as_typed(form) ==
    [name |-> strip(form.name), email |-> strip(form.email),
     password |-> strip(form.password), confirm |-> strip(form.confirm)]

\* the fields of the register form as the handler reads them
register_fields(form) ==
    [name |-> strip(form.name), email |-> lower(strip(form.email)),
     password |-> strip(form.password), confirm |-> strip(form.confirm)]

\* read phase of register: 0 when the form passes, else the status of the
\* response that rejects it
register_reject(f) ==
    IF f.name = <<>> \/ f.email = <<>> \/ f.password = <<>> THEN 200
    ELSE IF f.password # f.confirm THEN 200
    ELSE IF \E x \in users : x.email = f.email THEN 302
    ELSE 0

\* the writes of a register that no other request interleaves: INSERT of the
\* user under UNIQUE (email), COMMIT, then seed_defaults_for_user for the new id
register_commit(f) ==
    IF \E x \in users : x.email = f.email
    THEN Rejected(200, "error")
    ELSE /\ users' = users \cup
                {User(seq.users + 1, f.name, f.email, generate_password_hash(f.password))}
         /\ accounts' = seed_defaults_for_user(accounts, seq.users + 1, seq.accounts)
         /\ seq' = [seq EXCEPT !.users = @ + 1, !.accounts = @ + Len(default_accounts)]
         /\ Respond(302, "success")
         /\ UNCHANGED <<categories, transactions, goals, score_rules>>

register(form) ==
    LET f == register_fields(form) IN
    /\ seq.users < MaxUsers
    /\ seq.accounts + Len(default_accounts) <= MaxAccounts
    /\ IF register_reject(f) # 0
       THEN Rejected(register_reject(f), "error")
       ELSE register_commit(f)
    /\ UNCHANGED <<sessions, inflight>>

\* the user login finds for the form, or none
login_user_of(email_raw, password_raw) ==
    {x \in users : /\ x.email = lower(strip(email_raw))
                   /\ check_password_hash(x.password_hash, strip(password_raw))}

\* write phase of login: the session, and the INSERTs of the seeding when the
\* read phase counted no account; an IntegrityError there is swallowed
login_commit(u, seed) ==
    /\ sessions' = sessions \cup {u}
    /\ IF seed /\ \A a \in seed_rows(u, seq.accounts) :
                    uq_accounts_user_name(u, a.name, NULL)
       THEN /\ accounts' = accounts \cup seed_rows(u, seq.accounts)
            /\ seq' = [seq EXCEPT !.accounts = @ + Len(default_accounts)]
       ELSE UNCHANGED <<accounts, seq>>
    /\ Respond(302, "success")
    /\ UNCHANGED <<users, categories, transactions, goals, score_rules>>

\* read phase of the seeding: Account.query.filter_by(user_id).count() == 0
needs_seed(u) == {a \in accounts : a.user_id = u} = {}

login(email_raw, password_raw) ==
    LET found == login_user_of(email_raw, password_raw) IN
    /\ IF found = {}
       THEN Rejected(200, "error") /\ UNCHANGED sessions
       ELSE \E x \in found :
               /\ needs_seed(x.id) => seq.accounts + Len(default_accounts) <= MaxAccounts
               /\ login_commit(x.id, needs_seed(x.id))
    /\ UNCHANGED inflight

\* a logout that answers but leaves the session in place
logout_keeps_session(u) ==
    /\ u \in sessions
    /\ Respond(302, "success")
    /\ UNCHANGED <<tables, seq, sessions, inflight>>

\* @login_required on a request without a session: Flask-Login flashes the
\* login message and redirects to login_view; the handler does not run
unauthorized(u) ==
    /\ u \notin sessions
    /\ Respond(302, "warning")
    /\ UNCHANGED <<tables, seq, sessions, inflight>>

logout(u) ==
    /\ u \in sessions
    /\ sessions' = sessions \ {u}
    /\ Respond(302, "success")
    /\ UNCHANGED <<tables, seq, inflight>>

-----------------------------------------------------------------------------
(* Requests between their two phases.                                      *)

no_plan == [categories |-> {}, accounts |-> {}, transactions |-> {}]

Request(op, u, id, name, type) ==
    [op |-> op, user |-> u, id |-> id, name |-> name, type |-> type,
     email |-> <<>>, password |-> <<>>, seed |-> FALSE, plan |-> no_plan,
     flash |-> "none", found |-> NULL]

\* the read phase of a request passed: it waits for its write phase
suspend(r) ==
    /\ BagCardinality(inflight) < MaxInflight
    /\ inflight' = inflight (+) SetToBag({r})
    /\ UNCHANGED <<tables, seq, sessions, resp>>

begin_new_category(u, raw) ==
    /\ u \in sessions
    /\ seq.categories < MaxCategories
    /\ new_category_valid(u, strip(raw))
    /\ suspend(Request("new_category", u, NULL, strip(raw), <<>>))

begin_edit_category(u, cat_id, raw) ==
    /\ u \in sessions
    /\ owned(categories, cat_id, u) # {}
    /\ edit_category_valid(u, cat_id, strip(raw))
    /\ suspend(Request("edit_category", u, cat_id, strip(raw), <<>>))

begin_new_account(u, raw_name, raw_type) ==
    /\ u \in sessions
    /\ seq.accounts < MaxAccounts
    /\ new_account_valid(u, strip(raw_name), strip(raw_type))
    /\ suspend(Request("new_account", u, NULL, strip(raw_name), strip(raw_type)))

begin_edit_account(u, account_id, raw_name, raw_type) ==
    /\ u \in sessions
    /\ owned(accounts, account_id, u) # {}
    /\ edit_account_valid(u, account_id, strip(raw_name), strip(raw_type))
    /\ suspend(Request("edit_account", u, account_id, strip(raw_name), strip(raw_type)))

\* the loop of import_transactions has flushed its INSERTs, which drew their
\* ids from the sequences; the COMMIT is still to come
begin_import_transactions(u, file) ==
    LET st == import_rows(u, file, file.rows, import_start) IN
    /\ u \in sessions
    /\ file.fieldnames # <<>> /\ has_required(file)
    /\ within_bounds(st.seq)
    /\ BagCardinality(inflight) < MaxInflight
    /\ inflight' = inflight (+) SetToBag({
            [Request("import_transactions", u, NULL, <<>>, <<>>)
                EXCEPT !.plan = import_plan(st), !.flash = import_flash(st)]})
    /\ seq' = st.seq
    /\ UNCHANGED <<tables, sessions, resp>>

begin_register(form) ==
    LET f == register_fields(form) IN
    /\ seq.users < MaxUsers
    /\ seq.accounts + Len(default_accounts) <= MaxAccounts
    /\ register_reject(f) = 0
    /\ suspend([Request("register", NULL, NULL, f.name, <<>>)
                    EXCEPT !.email = f.email, !.password = f.password])

\* a request in flight ends, or goes on to its next phase as request `next`
finish(r) == inflight' = inflight (-) SetToBag({r})
continue(r, next) == inflight' = (inflight (-) SetToBag({r})) (+) SetToBag({next})

\* register, first write: db.session.add(u); db.session.commit().  The
\* request goes on to seed_defaults_for_user(u.id)
register_user(r) ==
    IF \E x \in users : x.email = r.email
    THEN Rejected(200, "error") /\ finish(r)
    ELSE /\ users' = users \cup
                {User(seq.users + 1, r.name, r.email, generate_password_hash(r.password))}
         /\ seq' = [seq EXCEPT !.users = @ + 1]
         /\ continue(r, Request("register_seed", seq.users + 1, NULL, <<>>, <<>>))
         /\ UNCHANGED <<accounts, categories, transactions, goals, score_rules, resp>>

\* register, the count of seed_defaults_for_user: with accounts there is
\* nothing to add and the request ends
register_seed(r) ==
    IF needs_seed(r.user)
    THEN /\ continue(r, Request("register_insert", r.user, NULL, <<>>, <<>>))
         /\ UNCHANGED <<tables, seq, resp>>
    ELSE Respond(302, "success") /\ finish(r) /\ UNCHANGED <<tables, seq>>

\* register, second write: the INSERTs of seed_defaults_for_user and their
\* COMMIT; an IntegrityError is caught by the handler of register
register_insert(r) ==
    /\ finish(r)
    /\ IF \A a \in seed_rows(r.user, seq.accounts) : uq_accounts_user_name(r.user, a.name, NULL)
       THEN /\ accounts' = accounts \cup seed_rows(r.user, seq.accounts)
            /\ seq' = [seq EXCEPT !.accounts = @ + Len(default_accounts)]
            /\ Respond(302, "success")
            /\ UNCHANGED <<users, categories, transactions, goals, score_rules>>
       ELSE Rejected(200, "error")

begin_login(email_raw, password_raw) ==
    \E x \in login_user_of(email_raw, password_raw) :
        /\ needs_seed(x.id) => seq.accounts + Len(default_accounts) <= MaxAccounts
        /\ suspend([Request("login", x.id, NULL, <<>>, <<>>)
                        EXCEPT !.seed = needs_seed(x.id)])

\* a score_rules table without the constraint
uq_score_rules_absent(u, category_id) == TRUE

\* UNIQUE (user_id, category_id) on score_rules, as the database checks it
\* when a rule of user u is inserted for category_id
uq_score_rules_user_category(u, category_id) ==
    \A r \in score_rules : ~(r.user_id = u /\ r.category_id = category_id)

\* read phase of new_rule: the form passes the validations and the SELECT of
\* the existing rule has run; `found` is the id of that rule, or NULL
begin_new_rule(u, category_id, limit_str, pct_str) ==
    LET monthly_limit == score_float(limit_str)
        warning_pct == score_float(pct_str)
        existing == {r \in score_rules : r.user_id = u /\ r.category_id = category_id}
    IN  /\ u \in sessions
        /\ monthly_limit.ok /\ warning_pct.ok
        /\ lt(zero, monthly_limit.val)
        /\ lt(zero, warning_pct.val) /\ lt(warning_pct.val, decimal(15, 1))
        /\ existing = {} => seq.score_rules < MaxScoreRules
        /\ suspend([Request("new_rule", u, category_id, limit_str, pct_str)
                        EXCEPT !.found = IF existing = {} THEN NULL
                                         ELSE (CHOOSE r \in existing : TRUE).id])

\* write phase of new_rule: the UPDATE of the rule found, or the INSERT under
\* the foreign key and UNIQUE (user_id, category_id), and the COMMIT, which
\* no try guards
new_rule_commit(r) ==
    IF r.found # NULL
    THEN IF \E x \in score_rules : x.id = r.found
         THEN /\ score_rules' =
                     {IF x.id = r.found
                      THEN [x EXCEPT !.monthly_limit = score_float(r.name).val,
                                     !.warning_pct = score_float(r.type).val,
                                     !.active = TRUE]
                      ELSE x : x \in score_rules}
              /\ Respond(302, "success")
              /\ UNCHANGED <<users, accounts, categories, transactions, goals, seq>>
         ELSE ServerError
    ELSE IF /\ \E c \in categories : c.id = r.id
            /\ uq_score_rules_user_category(r.user, r.id)
         THEN /\ score_rules' = score_rules \cup
                     {ScoreRule(seq.score_rules + 1, r.user, r.id,
                                score_float(r.name).val, score_float(r.type).val, TRUE)}
              /\ seq' = [seq EXCEPT !.score_rules = @ + 1]
              /\ Respond(302, "success")
              /\ UNCHANGED <<users, accounts, categories, transactions, goals>>
         ELSE ServerError

\* the next write phase of a request in flight
\* the values edit_transaction of app.py assigns to the attributes of tx
edit_transaction_row(tx, u, form) ==
    Transaction(tx.id, u, strip(form.description), safe_float_br(strip(form.amount)).val,
                strip(form.type), form_date(form.date, tx.date),
                form.category_id, form.account_id)

\* edit_transaction of app.py has loaded tx and validated the form; the
\* COMMIT is still to come
begin_edit_transaction(u, tx_id, form) ==
    /\ u \in sessions
    /\ owned(transactions, tx_id, u) # {}
    /\ transaction_form_valid(form)
    /\ LET tx == CHOOSE t \in owned(transactions, tx_id, u) : TRUE
       IN  suspend([Request("edit_transaction", u, tx_id, <<>>, <<>>)
                       EXCEPT !.plan = [loaded |-> tx,
                                        assigned |-> edit_transaction_row(tx, u, form)]])

\* write phase of edit_transaction: the session flushes an UPDATE of the
\* attributes whose assigned value differs from the loaded one, and of no
\* other; an UPDATE that finds no row, or breaks a foreign key, raises
edit_transaction_commit(r) ==
    LET dirty == {k \in DOMAIN r.plan.loaded : r.plan.assigned[k] # r.plan.loaded[k]}
        row(t) == [k \in DOMAIN t |-> IF k \in dirty THEN r.plan.assigned[k] ELSE t[k]]
    IN  IF dirty = {} THEN Rejected(302, "success")
        ELSE IF ~ \E t \in transactions : t.id = r.id THEN Rejected(200, "error")
        ELSE IF ~fk_transaction(categories, accounts,
                                IF "category_id" \in dirty
                                THEN r.plan.assigned.category_id ELSE NULL,
                                IF "account_id" \in dirty
                                THEN r.plan.assigned.account_id ELSE NULL)
             THEN Rejected(200, "error")
             ELSE /\ transactions' =
                         {IF t.id = r.id THEN row(t) ELSE t : t \in transactions}
                  /\ Respond(302, "success")
                  /\ UNCHANGED <<users, accounts, categories, goals, score_rules, seq>>

\* delete_category has found no linked transaction; the delete and its
\* COMMIT are still to come
begin_delete_category(u, cat_id) ==
    /\ u \in sessions
    /\ owned(categories, cat_id, u) # {}
    /\ ~category_has_tx(u, cat_id)
    /\ suspend(Request("delete_category", u, cat_id, <<>>, <<>>))

\* delete_account has found no linked transaction
begin_delete_account(u, account_id) ==
    /\ u \in sessions
    /\ owned(accounts, account_id, u) # {}
    /\ ~account_has_tx(u, account_id)
    /\ suspend(Request("delete_account", u, account_id, <<>>, <<>>))

commit_inflight ==
    \E r \in BagToSet(inflight) :
        CASE r.op = "edit_transaction" ->
                /\ edit_transaction_commit(r)
                /\ finish(r) /\ UNCHANGED sessions
          [] r.op = "delete_category" ->
                /\ IF \E c \in categories : c.id = r.id
                   THEN delete_category_commit(r.id) ELSE Rejected(302, "error")
                /\ finish(r) /\ UNCHANGED sessions
          [] r.op = "delete_account" ->
                /\ IF \E a \in accounts : a.id = r.id
                   THEN delete_account_commit(r.id) ELSE Rejected(302, "error")
                /\ finish(r) /\ UNCHANGED sessions
          [] r.op = "new_category" ->
                /\ seq.categories < MaxCategories
                /\ new_category_commit(r.user, r.name)
                /\ finish(r) /\ UNCHANGED sessions
          [] r.op = "edit_category" ->
                /\ edit_category_commit(r.user, r.id, r.name)
                /\ finish(r) /\ UNCHANGED sessions
          [] r.op = "new_account" ->
                /\ seq.accounts < MaxAccounts
                /\ new_account_commit(r.user, r.name, r.type)
                /\ finish(r) /\ UNCHANGED sessions
          [] r.op = "edit_account" ->
                /\ edit_account_commit(r.user, r.id, r.name, r.type)
                /\ finish(r) /\ UNCHANGED sessions
          [] r.op = "import_transactions" ->
                /\ import_commit(r.user, r.plan, r.flash)
                /\ finish(r) /\ UNCHANGED <<seq, sessions>>
          [] r.op = "register" ->
                /\ seq.users < MaxUsers
                /\ register_user(r)
                /\ UNCHANGED sessions
          [] r.op = "register_seed" ->
                register_seed(r) /\ UNCHANGED sessions
          [] r.op = "register_insert" ->
                /\ seq.accounts + Len(default_accounts) <= MaxAccounts
                /\ register_insert(r)
                /\ UNCHANGED sessions
          [] r.op = "login" ->
                /\ r.seed => seq.accounts + Len(default_accounts) <= MaxAccounts
                /\ login_commit(r.user, r.seed)
                /\ finish(r)
          [] r.op = "new_rule" ->
                /\ new_rule_commit(r)
                /\ finish(r) /\ UNCHANGED sessions

-----------------------------------------------------------------------------
(* The forms the requests of the model submit.                             *)

CategoryNames == {<<"Casa", " ">>, <<"Lazer">>}

\* <<name, type>> of the account form
AccountForms == {<<<<"Carteira">>, <<"banco">>>>, <<<<" ", "Extra">>, <<"banco">>>>}

OwnerAccountForms == {<<<<"Carteira">>, <<"banco">>>>, <<<<" ">>, <<"banco">>>>}

a_date == <<"2", "0", "2", "5", "-", "0", "1", "-", "1", "5">>

an_amount == <<"1", "0", ",", "5", "0">>

TransactionForm(description, amount, type, date, category_id, account_id) ==
    [description |-> description, amount |-> amount, type |-> type, date |-> date,
     category_id |-> category_id, account_id |-> account_id]

\* the account ids still free in InitOwners, and an id that no account has
FormAccountIds == {1} \cup ((2 * Len(default_accounts) + 1)..MaxAccounts)

\* the forms with every category and every account of InitOwners' free ids,
\* one with an account id that no account has, and one without description
TransactionForms ==
    {TransactionForm(<<"mercado">>, an_amount, <<"saida">>, a_date, c, a)
        : c \in {NULL} \cup CategoryIds,
          a \in {NULL} \cup ((2 * Len(default_accounts) + 1)..MaxAccounts)}
    \cup {TransactionForm(<<"mercado">>, an_amount, <<"saida">>, a_date, NULL, 1),
          TransactionForm(<<" ">>, an_amount, <<"saida">>, a_date, NULL, NULL)}

\* <<monthly_limit, warning_pct>> of the score form
ScoreForms == {<<<<"1", "0", "0">>, <<"0", ",", "8">>>>, <<<<"0">>, <<"0", ",", "8">>>>}

csv_header ==
    <<<<"Data">>, <<"Descricao">>, <<"Tipo">>, <<"Valor">>, <<"Categoria">>, <<"Conta">>>>

CsvFile(fieldnames, rows) == [fieldnames |-> fieldnames, rows |-> rows]

CsvRow(descricao, tipo, categoria, conta) ==
    <<a_date, descricao, tipo, an_amount, categoria, conta>>

CsvFiles ==
    {CsvFile(csv_header,
             <<CsvRow(<<>>, <<"saida">>, <<"Casa">>, <<>>),
               CsvRow(<<"mercado">>, <<"SAIDA">>, <<"Casa">>, <<"Carteira">>)>>),
     CsvFile(<<<<"Data">>, <<"Descricao">>, <<"Tipo">>>>,
             <<<<a_date, <<"mercado">>, <<"saida">>>>>>)}

RegisterForm(name, email, password, confirm) ==
    [name |-> name, email |-> email, password |-> password, confirm |-> confirm]

Emails == {<<"a@x">>, <<" ", "A@X">>, <<"b@x">>}

Passwords == {<<"s3nha">>, <<"outra">>}

RegisterForms ==
    {RegisterForm(<<"Ana">>, e, <<"s3nha">>, <<"s3nha">>) : e \in Emails}
    \cup {RegisterForm(<<>>, <<"a@x">>, <<"s3nha">>, <<"s3nha">>),
          RegisterForm(<<"Ana">>, <<"a@x">>, <<"s3nha">>, <<"outra">>)}

-----------------------------------------------------------------------------
(* The specifications.                                                     *)

\* the database after the migrations, before any request
Init ==
    /\ users = {} /\ accounts = {} /\ categories = {} /\ transactions = {}
    /\ goals = {} /\ score_rules = {}
    /\ seq = [users |-> 0, accounts |-> 0, categories |-> 0, transactions |-> 0,
              score_rules |-> 0]
    /\ sessions = {}
    /\ inflight = EmptyBag
    /\ resp = [code |-> 0, flash |-> "none"]

\* registration, login and the default accounts
Next ==
    \/ \E form \in RegisterForms : register(form)
    \/ \E form \in RegisterForms : begin_register(form)
    \/ \E e \in Emails, p \in Passwords : login(e, p)
    \/ \E e \in Emails, p \in Passwords : begin_login(e, p)
    \/ \E u \in UserIds : logout(u)
    \/ \E u \in UserIds, id \in AccountIds : delete_account(u, id)
    \/ commit_inflight

Spec == Init /\ [][Next]_vars

\* two owners, registered and logged in, who have deleted their default
\* accounts: a state the requests of Next lead to
InitOwners ==
    /\ users = {User(1, <<"Ana">>, <<"a@x">>, generate_password_hash(<<"s3nha">>)),
                User(2, <<"Ana">>, <<"b@x">>, generate_password_hash(<<"s3nha">>))}
    /\ accounts = {} /\ categories = {} /\ transactions = {}
    /\ goals = {} /\ score_rules = {}
    /\ seq = [users |-> 2, accounts |-> 2 * Len(default_accounts), categories |-> 0,
              transactions |-> 0, score_rules |-> 0]
    /\ sessions = {1, 2}
    /\ inflight = EmptyBag
    /\ resp = [code |-> 302, flash |-> "success"]

\* the requests of logged-in owner u on the data
OwnerRequest(u) ==
    \/ new_category(u, <<"Casa", " ">>)
    \/ \E id \in CategoryIds, raw \in {<<>>, <<"Casa">>} : edit_category(u, id, raw)
    \/ \E id \in CategoryIds : delete_category(u, id)
    \/ \E f \in OwnerAccountForms : new_account(u, f[1], f[2])
    \/ \E id \in FormAccountIds, f \in OwnerAccountForms : edit_account(u, id, f[1], f[2])
    \/ \E id \in FormAccountIds : delete_account(u, id)
    \/ \E form \in TransactionForms, now \in Clock : new_transaction(u, form, now)
    \/ \E id \in TransactionIds, form \in TransactionForms : edit_transaction(u, id, form)
    \/ \E id \in TransactionIds : delete_transaction(u, id)
    \/ \E file \in CsvFiles : import_transactions(u, file)
    \/ \E c \in CategoryIds, f \in ScoreForms : new_rule(u, c, f[1], f[2])
    \/ \E id \in ScoreRuleIds, f \in ScoreForms : edit_rule(u, id, f[1], f[2])
    \/ \E id \in ScoreRuleIds : delete_rule(u, id)
    \/ listing(u)

NextOwners == \E u \in UserIds : OwnerRequest(u)

SpecOwners == InitOwners /\ [][NextOwners]_vars

\* one owner, registered and logged in, who has deleted the default accounts:
\* a state the requests of Next lead to
InitNames ==
    /\ users = {User(1, <<"Ana">>, <<"a@x">>, generate_password_hash(<<"s3nha">>))}
    /\ accounts = {} /\ categories = {} /\ transactions = {}
    /\ goals = {} /\ score_rules = {}
    /\ seq = [users |-> 1, accounts |-> Len(default_accounts), categories |-> 0,
              transactions |-> 0, score_rules |-> 0]
    /\ sessions = {1}
    /\ inflight = EmptyBag
    /\ resp = [code |-> 302, flash |-> "success"]

\* the account ids that edit_account is asked for: the next two of InitNames
NamesAccountIds == {Len(default_accounts) + 1, Len(default_accounts) + 2}

\* the requests that write a name of a category or an account, whole and
\* in two phases
NextNames ==
    \/ \E raw \in CategoryNames : new_category(1, raw)
    \/ \E raw \in CategoryNames : begin_new_category(1, raw)
    \/ \E id \in CategoryIds, raw \in CategoryNames : edit_category(1, id, raw)
    \/ \E id \in CategoryIds, raw \in CategoryNames : begin_edit_category(1, id, raw)
    \/ \E f \in AccountForms : new_account(1, f[1], f[2])
    \/ \E f \in AccountForms : begin_new_account(1, f[1], f[2])
    \/ \E id \in NamesAccountIds, f \in AccountForms : edit_account(1, id, f[1], f[2])
    \/ \E id \in NamesAccountIds, f \in AccountForms : begin_edit_account(1, id, f[1], f[2])
    \/ \E file \in CsvFiles : import_transactions(1, file)
    \/ \E file \in CsvFiles : begin_import_transactions(1, file)
    \/ login(<<"a@x">>, <<"s3nha">>)
    \/ begin_login(<<"a@x">>, <<"s3nha">>)
    \/ commit_inflight

SpecNames == InitNames /\ [][NextNames]_vars

-----------------------------------------------------------------------------
(* Tenancy (SpecOwners).                                                   *)

\* C1: every listing (transactions, categories, accounts, score rules, the
\* month export) invoked by owner u returns only rows whose owner is u,
\* the category joined to a listed score rule and the category and account
\* named beside an exported transaction included.
C1_listings_return_own_rows ==
    \A u \in UserIds :
        /\ \A t \in list_transactions_rows(u) : t.user_id = u
        /\ \A c \in list_categories_rows(u) : c.user_id = u
        /\ \A a \in list_accounts_rows(u) : a.user_id = u
        /\ \A p \in list_score_rows(u) : p[1].user_id = u /\ p[2].user_id = u
        /\ \A e \in export_csv_rows(u, 2025, 1) :
                /\ e.tx.user_id = u
                /\ \A c \in e.category : c.user_id = u
                /\ \A a \in e.account : a.user_id = u

\* C2: every transaction whose category or account reference is set refers
\* to a category or account of the owner of the transaction.
C2_references_same_owner ==
    \A t \in transactions :
        /\ t.category_id # NULL =>
                \E c \in categories : c.id = t.category_id /\ c.user_id = t.user_id
        /\ t.account_id # NULL =>
                \E a \in accounts : a.id = t.account_id /\ a.user_id = t.user_id

\* the rows of owner b in every table
rows_of(b) ==
    <<of_user(transactions, b), of_user(categories, b), of_user(accounts, b),
      of_user(goals, b), of_user(score_rules, b)>>

\* C3: a request of owner a leaves every row of every other owner b as it
\* was: none created, modified or deleted.
C3_other_owners_rows_unchanged ==
    [][\A a \in UserIds :
          OwnerRequest(a) => \A b \in UserIds \ {a} : rows_of(b)' = rows_of(b)]_vars

\* no row of `table` has this id and this owner
absent(table, obj_id, u) == ~ \E r \in table : r.id = obj_id /\ r.user_id = u

\* an edit or a delete, by owner u, of a transaction, category or account
\* that is missing or another owner's
edit_or_delete(u) ==
    \/ \E id \in TransactionIds :
            /\ absent(transactions, id, u)
            /\ \/ \E form \in TransactionForms : edit_transaction(u, id, form)
               \/ delete_transaction(u, id)
    \/ \E id \in CategoryIds :
            /\ absent(categories, id, u)
            /\ \/ \E raw \in {<<>>, <<"Casa">>} : edit_category(u, id, raw)
               \/ delete_category(u, id)
    \/ \E id \in FormAccountIds :
            /\ absent(accounts, id, u)
            /\ \/ \E f \in OwnerAccountForms : edit_account(u, id, f[1], f[2])
               \/ delete_account(u, id)

\* an edit or a delete, by owner u, of a score rule that is missing or
\* another owner's
edit_or_delete_rule(u) ==
    \E id \in ScoreRuleIds :
        /\ absent(score_rules, id, u)
        /\ \/ \E f \in ScoreForms : edit_rule(u, id, f[1], f[2])
           \/ delete_rule(u, id)

C5_referenced_delete_rejected ==
    [][\A u \in UserIds :
          /\ \A id \in CategoryIds :
                (/\ delete_category(u, id)
                 /\ ~absent(categories, id, u)
                 /\ \E t \in transactions : t.category_id = id)
                => resp'.flash = "error" /\ UNCHANGED tables
          /\ \A id \in AccountIds :
                (/\ delete_account(u, id)
                 /\ ~absent(accounts, id, u)
                 /\ \E t \in transactions : t.account_id = id)
                => resp'.flash = "error" /\ UNCHANGED tables]_vars

\* C6: a delete of an owned category or account that no transaction
\* references removes the row, whatever goals and score rules exist.
C6_unreferenced_delete_succeeds ==
    [][\A u \in UserIds :
          /\ \A id \in CategoryIds :
                (/\ delete_category(u, id)
                 /\ ~absent(categories, id, u)
                 /\ ~ \E t \in transactions : t.category_id = id)
                => ~ \E c \in categories' : c.id = id
          /\ \A id \in AccountIds :
                (/\ delete_account(u, id)
                 /\ ~absent(accounts, id, u)
                 /\ ~ \E t \in transactions : t.account_id = id)
                => ~ \E a \in accounts' : a.id = id]_vars

-----------------------------------------------------------------------------
(* Names (SpecNames).                                                      *)

\* C7: no two accounts of one owner share a name and no two categories of
\* one owner share a name, whatever the interleaving of create, rename,
\* import and seeding.
C7_names_unique_per_owner ==
    /\ \A a, b \in accounts : a.user_id = b.user_id /\ a.name = b.name => a.id = b.id
    /\ \A c, d \in categories : c.user_id = d.user_id /\ c.name = d.name => c.id = d.id

\* a request passed the existence pre-check with a name that another
\* request has committed since
C7_name_taken_since_pre_check ==
    \E r \in BagToSet(inflight) :
        \/ /\ r.op \in {"new_category", "edit_category"}
           /\ \E c \in categories : c.user_id = r.user /\ c.name = r.name /\ c.id # r.id
        \/ /\ r.op \in {"new_account", "edit_account"}
           /\ \E a \in accounts : a.user_id = r.user /\ a.name = r.name /\ a.id # r.id

-----------------------------------------------------------------------------
(* Registration, login and the default accounts (Spec).                    *)

\* C8: no two users have the same trimmed, lower-cased email, and a
\* register with an email that a user already has creates no user, whether
\* the request runs whole or its write phase comes after another register.
C8_email_unique ==
    /\ [](\A x, y \in users : lower(strip(x.email)) = lower(strip(y.email)) => x.id = y.id)
    /\ [][/\ \A form \in RegisterForms :
               (/\ \E x \in users : x.email = lower(strip(form.email))
                /\ register(form))
               => users' = users
          /\ \A r \in BagToSet(inflight) :
               (/\ r.op = "register"
                /\ \E x \in users : x.email = r.email
                /\ inflight' = inflight (-) SetToBag({r})
                /\ commit_inflight)
               => users' = users]_vars

\* a register passed the pre-check with an email that another register
\* has committed since
C8_email_taken_since_pre_check ==
    \E r \in BagToSet(inflight) :
        r.op = "register" /\ \E x \in users : x.email = r.email

\* owner u has exactly the four default accounts in the table accs
four_defaults(u, accs) ==
    /\ Cardinality(of_user(accs, u)) = 4
    /\ {<<a.name, a.type>> : a \in of_user(accs, u)} =
            {<<<<"Carteira">>, <<"carteira">>>>, <<<<"Banco">>, <<"banco">>>>,
             <<<<"Cartao">>, <<"cartao">>>>, <<<<"Reserva">>, <<"reserva">>>>}

\* the users a step creates
created == users' \ users

\* a register in flight ends with this step, after the commit of its user
register_ends(r) ==
    /\ r.op \in {"register_seed", "register_insert"}
    /\ inflight' = inflight (-) SetToBag({r})
    /\ commit_inflight

-----------------------------------------------------------------------------
(* Sessions (SpecSessions).                                                *)

\* two registered owners with their default accounts, none logged in
InitSessions ==
    /\ users = {User(1, <<"Ana">>, <<"a@x">>, generate_password_hash(<<"s3nha">>)),
                User(2, <<"Ana">>, <<"b@x">>, generate_password_hash(<<"s3nha">>))}
    /\ accounts = seed_rows(1, 0) \cup seed_rows(2, Len(default_accounts))
    /\ categories = {} /\ transactions = {}
    /\ goals = {} /\ score_rules = {}
    /\ seq = [users |-> 2, accounts |-> 2 * Len(default_accounts), categories |-> 0,
              transactions |-> 0, score_rules |-> 0]
    /\ sessions = {}
    /\ inflight = EmptyBag
    /\ resp = [code |-> 302, flash |-> "success"]

\* the login forms: the first owner's, a wrong password, an unknown email
LoginForms ==
    {<<<<" ", "A@X">>, <<"s3nha">>>>, <<<<"a@x">>, <<"outra">>>>, <<<<"c@x">>, <<"s3nha">>>>}

\* logins, logouts, and the protected requests with and without a session
NextSessions ==
    \/ \E f \in LoginForms : login(f[1], f[2])
    \/ \E u \in UserIds : logout(u)
    \/ \E u \in UserIds : unauthorized(u)
    \/ \E u \in UserIds : OwnerRequest(u)

SpecSessions == InitSessions /\ [][NextSessions]_vars

\* the stored user u has the email and the password of login form f
credentials(u, f) ==
    \E x \in users : /\ x.id = u
                     /\ x.email = lower(strip(f[1]))
                     /\ check_password_hash(x.password_hash, strip(f[2]))

\* C11: a protected request of owner u is served only while u has a session;
\* a session of u begins only with a login whose form carries u's email and
\* password, a login with an unknown email or a wrong password leaves the
\* sessions as they were, and a logout of u ends u's session.
C11_protected_only_in_session ==
    [][/\ \A u \in UserIds : u \notin sessions => ~OwnerRequest(u)
       /\ \A u \in sessions' \ sessions :
              \E f \in LoginForms : credentials(u, f) /\ login(f[1], f[2])
       /\ \A f \in LoginForms :
              (\A u \in UserIds : ~credentials(u, f)) /\ login(f[1], f[2])
                  => sessions' = sessions
       /\ \A u \in sessions : logout(u) => u \notin sessions']_vars

\* owner 1 logged in, stored a transaction and logged out, and a protected
\* request made afterwards was sent to the login page
C11_refused_after_logout ==
    /\ sessions = {}
    /\ \E t \in transactions : t.user_id = 1
    /\ resp = [code |-> 302, flash |-> "warning"]

-----------------------------------------------------------------------------
(* Transactions (SpecTransactions).                                        *)

\* the texts of the transaction form: a blank description, amounts that
\* parse to a negative number and to zero, one that does not parse, a type
\* outside the two, a date that is no date, an account id that no account has
FormDescriptions == {<<"mercado">>, <<" ">>}

FormAmounts == {an_amount, <<"-", "5">>, <<"0">>, <<"a", "b", "c">>}

FormTypes == {<<"saida">>, <<"transferencia">>}

FormDates == {a_date, <<"o", "n", "t", "e", "m">>}

AnyTransactionForms ==
    {TransactionForm(d, a, t, dt, NULL, acc)
        : d \in FormDescriptions, a \in FormAmounts, t \in FormTypes, dt \in FormDates,
          acc \in {NULL, 1}}

\* the transaction requests of the one owner of InitNames, of app.py and of
\* the transactions blueprint
NextTransactions ==
    \/ \E form \in AnyTransactionForms, now \in Clock : new_transaction(1, form, now)
    \/ \E id \in TransactionIds, form \in AnyTransactionForms : edit_transaction(1, id, form)
    \/ \E form \in AnyTransactionForms, now \in Clock :
           transactions_new_transaction(1, form, now)
    \/ \E id \in TransactionIds, form \in AnyTransactionForms :
           transactions_edit_transaction(1, id, form)
    \/ \E id \in TransactionIds : delete_transaction(1, id)
    \/ \E file \in CsvFiles : import_transactions(1, file)

SpecTransactions == InitNames /\ [][NextTransactions]_vars

\* C12: every stored transaction has a non-empty description and a type that
\* is entrada or saida.
C12_description_and_type_valid ==
    \A t \in transactions :
        t.description # <<>> /\ t.type \in {<<"entrada">>, <<"saida">>}

\* C13: every stored transaction amount is strictly positive.
C13_amount_positive == \A t \in transactions : lt(zero, t.amount)

-----------------------------------------------------------------------------
(* Form validation (SpecForms).                                            *)

\* <<monthly_limit, warning_pct>>: a rule that passes, a limit of zero, a
\* warning fraction of 2, a limit that is no number
AnyScoreForms ==
    {<<<<"1", "0", "0">>, <<"0", ",", "8">>>>, <<<<"0">>, <<"0", ",", "8">>>>,
     <<<<"1", "0", "0">>, <<"2">>>>, <<<<"a", "b", "c">>, <<"0", ",", "8">>>>}

\* the create and edit requests of the one owner of InitNames, with forms
\* that pass and forms that do not
NextForms ==
    \/ NextTransactions
    \/ \E raw \in CategoryNames \cup {<<" ">>} : new_category(1, raw)
    \/ \E id \in CategoryIds, raw \in CategoryNames \cup {<<" ">>} : edit_category(1, id, raw)
    \/ \E f \in OwnerAccountForms : new_account(1, f[1], f[2])
    \/ \E id \in NamesAccountIds, f \in OwnerAccountForms : edit_account(1, id, f[1], f[2])
    \/ \E c \in CategoryIds, f \in AnyScoreForms : new_rule(1, c, f[1], f[2])
    \/ \E id \in ScoreRuleIds, f \in AnyScoreForms : edit_rule(1, id, f[1], f[2])

SpecForms == InitNames /\ [][NextForms]_vars

\* a transaction form that fails validation: empty description, invalid
\* type or unparsable amount
transaction_form_fails(form) ==
    \/ strip(form.description) = <<>>
    \/ ~valid_type(strip(form.type))
    \/ ~safe_float_br(strip(form.amount)).ok

\* a name that fails validation in `table`: empty, or the name of another of
\* the owner's rows
name_fails(table, u, raw, self) ==
    \/ strip(raw) = <<>>
    \/ \E r \in table : r.user_id = u /\ r.name = strip(raw) /\ r.id # self

\* a score form that fails validation: a value that is no number, a limit
\* that is not positive, a warning fraction outside (0, 1.5)
score_form_fails(f) ==
    LET monthly_limit == score_float(f[1])
        warning_pct == score_float(f[2])
    IN  \/ ~monthly_limit.ok \/ ~warning_pct.ok
        \/ le(monthly_limit.val, zero)
        \/ le(warning_pct.val, zero) \/ le(decimal(15, 1), warning_pct.val)

\* C14: a create or edit request whose form fails validation (empty name or
\* description, invalid type, unparsable amount, non-positive score limit,
\* out-of-range warning fraction, duplicate name) leaves every table unchanged.
C14_failed_validation_changes_nothing ==
    [][tables' # tables =>
        /\ \A form \in AnyTransactionForms : transaction_form_fails(form) =>
              /\ \A now \in Clock : ~new_transaction(1, form, now)
              /\ \A now \in Clock : ~transactions_new_transaction(1, form, now)
              /\ \A id \in TransactionIds :
                     ~edit_transaction(1, id, form) /\ ~transactions_edit_transaction(1, id, form)
        /\ \A raw \in CategoryNames \cup {<<" ">>} :
              /\ name_fails(categories, 1, raw, NULL) => ~new_category(1, raw)
              /\ \A id \in CategoryIds :
                     name_fails(categories, 1, raw, id) => ~edit_category(1, id, raw)
        /\ \A f \in OwnerAccountForms :
              /\ name_fails(accounts, 1, f[1], NULL) => ~new_account(1, f[1], f[2])
              /\ \A id \in NamesAccountIds :
                     name_fails(accounts, 1, f[1], id) => ~edit_account(1, id, f[1], f[2])
        /\ \A f \in AnyScoreForms : score_form_fails(f) =>
              /\ \A c \in CategoryIds : ~new_rule(1, c, f[1], f[2])
              /\ \A id \in ScoreRuleIds : ~edit_rule(1, id, f[1], f[2])]_vars

-----------------------------------------------------------------------------
(* The numeric parser (SpecParser).                                        *)

MaxText == 3

TextChars == {"1", "2", ",", ".", " "}

\* the texts of at most n characters
RECURSIVE Texts(_)
Texts(n) ==
    IF n = 0 THEN {<<>>}
    ELSE Texts(n - 1) \cup {Append(t, c) : t \in Texts(n - 1), c \in TextChars}

text_10c50 == <<"1", "0", ",", "5", "0">>
text_10d50 == <<"1", "0", ".", "5", "0">>
text_1d234c56 == <<"1", ".", "2", "3", "4", ",", "5", "6">>

AmountTexts == Texts(MaxText) \cup {text_10c50, text_10d50, text_1d234c56}

\* the form whose description repeats the amount as it was typed
ParserForm(text) ==
    TransactionForm(<<"valor">> \o text, text, <<"saida">>, a_date, NULL, NULL)

ParserForms == {ParserForm(text) : text \in AmountTexts}

\* the forms of the edits: the three formats and a blank amount
ParserEditForms ==
    {ParserForm(text) : text \in {text_10c50, text_10d50, text_1d234c56, <<" ">>}}

\* the owner of InitNames saves amounts, in new and in edited transactions
NextParser ==
    \/ \E form \in ParserForms, now \in Clock : new_transaction(1, form, now)
    \/ \E id \in TransactionIds, form \in ParserEditForms : edit_transaction(1, id, form)

SpecParser == InitNames /\ [][NextParser]_vars

\* the number a text denotes when `mark` is its decimal mark and the
\* characters of `dropped` and the blanks are passed over: digits, at most
\* one mark, at least one digit
denotes(text, mark, dropped) ==
    LET kept == SelectSeq(text, LAMBDA c : c \notin dropped \cup {" "})
        marks == {i \in 1..Len(kept) : kept[i] \in mark}
        digs == SelectSeq(kept, LAMBDA c : c \notin mark)
        ok == /\ Cardinality(marks) <= 1
              /\ digs # <<>>
              /\ \A i \in 1..Len(digs) : is_digit(digs[i])
        places == IF marks = {} THEN 0 ELSE Len(kept) - (CHOOSE i \in marks : TRUE)
    IN  [ok |-> ok, val |-> IF ok THEN decimal(digits_value(digs), places) ELSE zero]

\* the reading of the text: with both a comma and a dot the dots are
\* dropped and the comma is the decimal mark; otherwise the comma is read as
\* a decimal mark, like the dot
reading(text) ==
    IF contains(text, ",") /\ contains(text, ".")
    THEN denotes(text, {","}, {"."})
    ELSE denotes(text, {",", "."}, {})

\* the outcome of saving `form`: a transaction with amount `val`, or the
\* form rejected and nothing written
saved_or_rejected(form, expected) ==
    IF expected.ok
    THEN /\ resp'.code = 302
         /\ \E t \in transactions' :
                t.description = strip(form.description) /\ t.amount = expected.val
    ELSE resp'.code = 200 /\ UNCHANGED tables

\* C15: safe_float_br maps "10,50" to 10.50, "10.50" to 10.50 and "1.234,56"
\* to 1234.56, raises on an empty or whitespace-only text, and otherwise
\* reads the text with the dots dropped and the comma as decimal mark when
\* both occur, and with the comma as a decimal mark when not.
C15_parser_reads_both_formats ==
    [][\A form \in ParserForms :
          (\/ \E now \in Clock : new_transaction(1, form, now)
           \/ \E id \in TransactionIds :
                  owned(transactions, id, 1) # {} /\ edit_transaction(1, id, form))
          => /\ saved_or_rejected(form, reading(form.amount))
             /\ form.amount = text_10c50 =>
                    saved_or_rejected(form, [ok |-> TRUE, val |-> decimal(1050, 2)])
             /\ form.amount = text_10d50 =>
                    saved_or_rejected(form, [ok |-> TRUE, val |-> decimal(1050, 2)])
             /\ form.amount = text_1d234c56 =>
                    saved_or_rejected(form, [ok |-> TRUE, val |-> decimal(123456, 2)])
             /\ remove(form.amount, " ") = <<>> =>
                    saved_or_rejected(form, [ok |-> FALSE, val |-> zero])]_vars

\* "1.234,56" was saved as 1234.56
C15_thousands_and_comma_saved ==
    \E t \in transactions :
        /\ t.description = <<"valor">> \o text_1d234c56
        /\ t.amount = decimal(123456, 2)
        /\ resp.code = 302

-----------------------------------------------------------------------------
(* The dashboard (SpecDashboard).                                          *)

\* the clock of the server: a day in a leap and in a common February, in a
\* month of 30 days, in December and in January
DashboardClock ==
    {datetime(2024, 2, 29, 3600), datetime(2025, 2, 10, 3600), datetime(2025, 4, 30, 3600),
     datetime(2025, 12, 31, 3600), datetime(2025, 1, 20, 3600)}

\* the goals of the owner: of each kind, with a target and without, for
\* January 2025 and for every month
GoalRows ==
    {Goal(1, 1, <<"meta">>, type, target, month, IF type = <<"categoria">> THEN 1 ELSE NULL)
        : type \in {<<"gasto_mensal">>, <<"economia">>, <<"categoria">>},
          target \in {decimal(100, 0), zero},
          month \in {NoMonth, format_month_year(datetime(2025, 1, 20, 3600))}}

\* one owner, logged in, with a category and at most one goal
InitDashboard ==
    /\ users = {User(1, <<"Ana">>, <<"a@x">>, generate_password_hash(<<"s3nha">>))}
    /\ accounts = {} /\ transactions = {} /\ score_rules = {}
    /\ categories = {Category(1, 1, <<"Casa">>)}
    /\ goals \in {{}} \cup {{g} : g \in GoalRows}
    /\ seq = [users |-> 1, accounts |-> Len(default_accounts), categories |-> 1,
              transactions |-> 0, score_rules |-> 0]
    /\ sessions = {1}
    /\ inflight = EmptyBag
    /\ resp = [code |-> 302, flash |-> "success"]

\* the forms: incomes and expenses of 80, 101 and 10,50 with and without
\* the category, dated 2025-01-15 or, the date being no date, today
DashboardForms ==
    {TransactionForm(<<"mercado">>, a, t, dt, c, NULL)
        : a \in {<<"8", "0">>, <<"1", "0", "1">>, an_amount},
          t \in {<<"entrada">>, <<"saida">>, <<"transferencia">>},
          dt \in FormDates, c \in {NULL, 1}}

NextDashboard ==
    \/ \E form \in DashboardForms, now \in DashboardClock : new_transaction(1, form, now)
    \/ \E form \in DashboardForms, now \in DashboardClock :
           transactions_new_transaction(1, form, now)
    \/ \E now \in DashboardClock : index(1, now)

SpecDashboard == InitDashboard /\ [][NextDashboard]_vars

\* the days of the months of DashboardClock
days_of(now) ==
    IF now.m = 2 THEN (IF now.y = 2024 THEN 29 ELSE 28)
    ELSE IF now.m = 4 THEN 30 ELSE 31

\* C16: the daily running-balance series has exactly one entry per calendar
\* day of the month, in ascending order: 28 to 31 entries, December
\* included, the days without transactions included.
C16_one_entry_per_day ==
    \A now \in DashboardClock :
        LET series == line_chart_data(1, now) IN
        /\ Len(series) = days_of(now)
        /\ \A i \in 1..Len(series) :
               series[i].date = strftime_ymd(datetime(now.y, now.m, i, 0))

\* a transaction of December is stored: the series of December has 31
\* entries, 30 of them for days without transactions
C16_december_with_empty_days ==
    /\ \E t \in transactions : t.date.y = 2025 /\ t.date.m = 12
    /\ Len(line_chart_data(1, datetime(2025, 12, 31, 3600))) = 31
    /\ resp.code = 200

\* C17: the last value of the daily series equals the month's income minus
\* the month's expense.
C17_last_value_is_month_net ==
    \A now \in DashboardClock :
        LET series == line_chart_data(1, now) IN
        series[Len(series)].saldo =
            add(total_entradas_mes(1, now), neg(total_saidas_mes(1, now)))

\* C18: every goal's percent is within [0, 100], and is 0 when the target is
\* not positive.
C18_percent_within_0_100 ==
    \A now \in DashboardClock : \A p \in goals_progress(1, now) :
        /\ le(zero, p.percent) /\ le(p.percent, decimal(100, 0))
        /\ le(p.target, zero) => p.percent = zero

-----------------------------------------------------------------------------
(* Score rules (SpecScore).                                                *)

\* one owner, logged in, with a category
InitScore ==
    /\ users = {User(1, <<"Ana">>, <<"a@x">>, generate_password_hash(<<"s3nha">>))}
    /\ accounts = {} /\ transactions = {} /\ goals = {} /\ score_rules = {}
    /\ categories = {Category(1, 1, <<"Casa">>)}
    /\ seq = [users |-> 1, accounts |-> Len(default_accounts), categories |-> 1,
              transactions |-> 0, score_rules |-> 0]
    /\ sessions = {1}
    /\ inflight = EmptyBag
    /\ resp = [code |-> 302, flash |-> "success"]

\* expenses and an income of 80, 101 and 10,50, in the category and outside
ScoreTransactionForms ==
    {TransactionForm(<<"mercado">>, a, t, a_date, c, NULL)
        : a \in {<<"8", "0">>, <<"1", "0", "1">>, an_amount},
          t \in {<<"entrada">>, <<"saida">>}, c \in {NULL, 1}}

\* <<monthly_limit, warning_pct>>: limits of 100 and 80 with warning
\* fractions 0,8 and 1,2, and a limit of zero
ScoreRuleForms ==
    {<<<<"1", "0", "0">>, <<"0", ",", "8">>>>, <<<<"8", "0">>, <<"0", ",", "8">>>>,
     <<<<"1", "0", "0">>, <<"1", ",", "2">>>>, <<<<"0">>, <<"0", ",", "8">>>>}

\* the year and m arguments of /score: absent, or a year and a month
ScoreYears == {NULL, 2025}

ScoreMonths == {NULL, 0, 1, 13}

NextScore ==
    \/ \E form \in ScoreTransactionForms, now \in Clock : new_transaction(1, form, now)
    \/ \E id \in TransactionIds, form \in ScoreTransactionForms : edit_transaction(1, id, form)
    \/ \E c \in CategoryIds, f \in ScoreRuleForms : new_rule(1, c, f[1], f[2])
    \/ \E c \in CategoryIds, f \in ScoreRuleForms : begin_new_rule(1, c, f[1], f[2])
    \/ \E id \in ScoreRuleIds, f \in ScoreRuleForms : edit_rule(1, id, f[1], f[2])
    \/ \E id \in ScoreRuleIds : delete_rule(1, id)
    \/ \E year \in ScoreYears, m \in ScoreMonths, now \in Clock : list_score(1, year, m, now)
    \/ commit_inflight

SpecScore == InitScore /\ [][NextScore]_vars

\* a * b on floats
mul(a, b) == decimal(a.m * b.m, a.e + b.e)

\* the owner's expenses in category cat_id in month `month` of `year`
month_expense(u, cat_id, year, month) ==
    sum_amount({t \in transactions :
                   /\ t.user_id = u /\ t.type = <<"saida">> /\ t.category_id = cat_id
                   /\ t.date.y = year /\ t.date.m = month})

\* C19: for each active rule the status is red exactly when spent / limit > 1,
\* yellow exactly when warning_pct <= spent / limit <= 1 and green otherwise,
\* spent being the owner's expenses of the month in the rule's category and
\* remaining being limit - spent; spent 80 of limit 100 with warning_pct 0.80
\* is yellow and spent 101 of limit 100 is red.
C19_status_by_ratio ==
    \A year \in ScoreYears, m \in ScoreMonths, now \in Clock :
        \A it \in score_items(1, year, m, now) :
            LET warn == it.rule.warning_pct IN
            /\ it.rule.active /\ lt(zero, it.limit)
            /\ it.spent = month_expense(1, it.rule.category_id,
                                        year_arg(year, now), month_arg(m, now))
            /\ it.status \in {"red", "yellow", "green"}
            /\ it.status = "red" <=> lt(it.limit, it.spent)
            /\ it.status = "yellow" <=>
                   le(mul(warn, it.limit), it.spent) /\ le(it.spent, it.limit)
            /\ it.remaining = add(it.limit, neg(it.spent))
            /\ it.spent = decimal(80, 0) /\ it.limit = decimal(100, 0) /\ warn = decimal(8, 1)
                   => it.status = "yellow"
            /\ it.spent = decimal(101, 0) /\ it.limit = decimal(100, 0) => it.status = "red"

\* the score list was shown with 80 spent of a limit of 100 and a warning
\* fraction of 0.80
C19_spent_80_of_100_listed ==
    /\ resp.code = 200
    /\ \E now \in Clock : \E it \in score_items(1, NULL, NULL, now) :
           /\ it.spent = decimal(80, 0) /\ it.limit = decimal(100, 0)
           /\ it.rule.warning_pct = decimal(8, 1)

\* the rules of owner u for category c
rules_of(u, c) == {r \in score_rules : r.user_id = u /\ r.category_id = c}

\* the rule of owner u for category c now carries the values of form f, and
\* no rule was added or removed
rule_updated(u, c, f) ==
    /\ {r.id : r \in score_rules'} = {r.id : r \in score_rules}
    /\ \A r \in score_rules' :
           r.user_id = u /\ r.category_id = c =>
               /\ r.monthly_limit = score_float(f[1]).val
               /\ r.warning_pct = score_float(f[2]).val

-----------------------------------------------------------------------------
(* CSV import and export (SpecImport).                                     *)

a_row(descricao, tipo, valor, data) == <<data, descricao, tipo, valor, <<"Casa">>, <<>>>>

an_integer == <<"8", "0">>

a_bad_date == <<"2", "0", "2", "5", "-", "1", "3", "-", "0", "1">>

lower_header == [i \in 1..Len(csv_header) |-> lower(csv_header[i])]

short_header == <<<<"descricao">>, <<"tipo">>, <<"valor">>>>

english_header == <<<<"date">>, <<"description">>, <<"type">>, <<"amount">>>>

\* a file of the given header and rows, written with delimiter d
csv_text(header, rows, d) ==
    <<writerow(header, d)>> \o [i \in 1..Len(rows) |-> writerow(rows[i], d)]

\* eleven rows that fail
eleven_bad_rows == [i \in 1..11 |-> a_row(<<>>, <<"saida">>, an_amount, a_date)]

\* the files uploaded: the full header with a good and a bad row under either
\* delimiter, one bad row of each kind, eleven bad rows, a row that names a
\* category and an account, a header without
\* the date column, the English column names, and the empty file
ImportFiles ==
    {csv_text(csv_header, <<a_row(<<"mercado">>, <<"SAIDA">>, an_amount, a_date),
                            a_row(<<>>, <<"saida">>, an_amount, a_date)>>, ";"),
     csv_text(csv_header, <<a_row(<<"mercado">>, <<"saida">>, an_integer, a_date),
                            a_row(<<"mercado">>, <<"transferencia">>, an_integer, a_date)>>, ","),
     csv_text(lower_header,
              <<a_row(<<"mercado">>, <<"saida">>, <<"a", "b", "c">>, a_date),
                a_row(<<"mercado">>, <<"saida">>, an_integer, a_bad_date)>>, ","),
     csv_text(csv_header, <<a_row(<<"mercado">>, <<"saida">>, an_amount, a_bad_date),
                            a_row(<<"mercado">>, <<"entrada">>, an_amount, a_date)>>, ";"),
     csv_text(csv_header, eleven_bad_rows, ";"),
     csv_text(csv_header, <<<<a_date, <<"mercado">>, <<"saida">>, an_amount,
                              <<"Casa">>, <<"Carteira">>>>>>, ";"),
     csv_text(short_header, <<<<<<"mercado">>, <<"saida">>, an_integer>>>>, ","),
     csv_text(short_header, <<<<<<"mercado">>, <<"saida">>, an_amount>>>>, ";"),
     csv_text(english_header, <<<<a_date, <<"mercado">>, <<"saida">>, an_integer>>>>, ","),
     <<>>}

ImportForms ==
    {TransactionForm(<<"mercado">>, a, <<"saida">>, d, c, NULL)
        : a \in {an_amount, <<"1", ",", "2", "3", "4">>}, d \in {a_date, <<>>}, c \in {NULL, 1}}

NextImport ==
    \/ \E raw \in ImportFiles : post_import_transactions(1, raw)
    \/ \E raw \in ImportFiles, now \in Clock : transactions_import_transactions(1, raw, now)
    \/ \E raw \in ImportFiles : begin_import_transactions(1, DictReader(raw, delimiter(raw)))
    \/ \E raw \in CategoryNames : new_category(1, raw)
    \/ \E form \in ImportForms, now \in Clock : new_transaction(1, form, now)
    \/ \E id \in TransactionIds : delete_transaction(1, id)
    \/ listing(1)
    \/ commit_inflight

SpecImport == InitNames /\ [][NextImport]_vars

\* the header of the file as the import of app.py reads it
header_of(raw) == headers_lower(DictReader(raw, delimiter(raw)))

\* a required column, under its Portuguese or its English name, is missing
lacks_column(raw) ==
    \E names \in {{<<"data">>, <<"date">>}, {<<"descricao">>, <<"description">>},
                  {<<"tipo">>, <<"type">>}, {<<"valor">>, <<"amount">>}} :
        \A i \in 1..Len(header_of(raw)) : header_of(raw)[i] \notin names

\* C21: an import of a file whose header lacks a required column (date,
\* description, type, amount, whatever the case of the letters) creates no
\* transaction, category or account and reports an error.
C21_missing_column_rejected ==
    [][\A raw \in ImportFiles :
          /\ lacks_column(raw)
          /\ \/ post_import_transactions(1, raw)
             \/ \E now \in Clock : transactions_import_transactions(1, raw, now)
          => tables' = tables /\ resp'.flash = "error"]_vars

\* the file as the format reads it: the delimiter found in the first line,
\* the column names whatever their case
read(raw) == DictReader(raw, delimiter(raw))

\* the rows of the file that pass the four checks
good_rows(raw) == {i \in 1..Len(read(raw).rows) : row_valid(read(raw), read(raw).rows[i])}

\* the transaction a good row stands for, but for its id and its links
row_imported(raw, i, t) ==
    LET cell(key) == strip(get(read(raw), read(raw).rows[i], key))
    IN  /\ t.user_id = 1
        /\ t.description = cell(<<"descricao">>)
        /\ t.type = lower(cell(<<"tipo">>))
        /\ t.amount = safe_float_br(cell(<<"valor">>)).val
        /\ t.date = strptime_ymd(cell(<<"data">>)).val

\* the counts the import of app.py reports for the file
report(raw) == import_rows(1, read(raw), read(raw).rows, import_start)

\* C22: an import of a file with the four required columns stores one
\* transaction for every row that has a description, a type of the enum, an
\* amount that parses and a date that parses, and none for any other row; it
\* does not abort; imported + skipped is the number of data rows and at most
\* 10 row errors are recorded.
C22_bad_rows_skipped_good_rows_imported ==
    [][\A raw \in ImportFiles :
          /\ raw # <<>> /\ has_required(read(raw))
          /\ \/ post_import_transactions(1, raw)
             \/ \E now \in Clock : transactions_import_transactions(1, raw, now)
          => /\ Cardinality(transactions' \ transactions) = Cardinality(good_rows(raw))
             /\ \A i \in good_rows(raw) :
                    \E t \in transactions' \ transactions : row_imported(raw, i, t)
             /\ resp'.flash # "error"
             /\ report(raw).imported + report(raw).skipped = Len(read(raw).rows)
             /\ report(raw).errors <= 10
             /\ report(raw).skipped > 10 => report(raw).errors = 10]_vars

\* the step stores every row of the plan and reports no error
persisted(plan) ==
    /\ categories' = categories \cup plan.categories
    /\ accounts' = accounts \cup plan.accounts
    /\ transactions' = transactions \cup plan.transactions
    /\ UNCHANGED <<users, goals, score_rules>>
    /\ resp'.flash # "error"

\* the step stores nothing and reports an error
rolled_back == tables' = tables /\ resp'.flash = "error"

\* the rows app.py's loop adds for the file: one transaction per good row,
\* linked to rows that are stored or added with it
plan_of(raw) == import_plan(report(raw))

\* C23: the rows an import added to its session (the transactions of the
\* parsed rows and the categories and accounts created for them) are stored
\* all together at the COMMIT, or, when the COMMIT fails, none of them is and
\* every table is as it was; whether the request runs whole or other requests
\* commit between its loop and its COMMIT.
C23_import_all_or_nothing ==
    [][/\ \A r \in BagToSet(inflight) :
              r.op = "import_transactions" /\ inflight' = inflight (-) SetToBag({r})
              => persisted(r.plan) \/ rolled_back
       /\ \A raw \in ImportFiles :
              raw # <<>> /\ has_required(read(raw)) /\ post_import_transactions(1, raw)
              => /\ persisted(plan_of(raw)) \/ rolled_back
                 /\ Cardinality(plan_of(raw).transactions) = Cardinality(good_rows(raw))
                 /\ \A t \in plan_of(raw).transactions :
                        fk_transaction(categories \cup plan_of(raw).categories,
                                       accounts \cup plan_of(raw).accounts,
                                       t.category_id, t.account_id)]_vars

\* an import whose COMMIT failed: its account and its transaction took their
\* ids, and neither is stored
C23_import_rolled_back ==
    /\ inflight = EmptyBag
    /\ resp.flash = "error"
    /\ seq.accounts = Len(default_accounts) + 1 /\ accounts = {}
    /\ seq.transactions = 1 /\ transactions = {}
    /\ \E c \in categories : c.name = <<"Casa">>

\* the fields of a transaction the round trip is compared on, the category
\* and the account by their names
fields(t, cats, accs) ==
    <<t.date, t.description, t.type,
      IF \E c \in cats : c.id = t.category_id
      THEN (CHOOSE c \in cats : c.id = t.category_id).name ELSE <<>>,
      IF \E a \in accs : a.id = t.account_id
      THEN (CHOOSE a \in accs : a.id = t.account_id).name ELSE <<>>,
      t.amount>>

\* what the import of app.py adds for owner u from the text of a file
reimported(u, raw) ==
    LET st == import_rows(u, read(raw), read(raw).rows, import_start)
    IN  IF raw = <<>> \/ ~has_required(read(raw)) THEN {}
        ELSE {fields(t, st.categories, st.accounts) : t \in st.transactions \ transactions}

january == <<"2", "0", "2", "5", "-", "0", "1">>

\* C24: the file export_csv writes for an owner's month, imported for an
\* owner without transactions, adds the transactions of that month: the same
\* dates, descriptions, types, category names, account names and amounts.
C24_export_import_round_trip ==
    \A now \in Clock :
        reimported(2, export_csv(1, january, now))
            = {fields(t, categories, accounts)
                  : t \in {x \in transactions :
                              x.user_id = 1
                                  /\ in_range(x.date, month_range_from_str(january, now))}}

-----------------------------------------------------------------------------
(* The date of a transaction form (SpecDates).                             *)

another_date == <<"2", "0", "2", "5", "-", "0", "2", "-", "0", "3">>

\* no date, a word, a thirteenth month
BadDates == {<<>>, <<"o", "n", "t", "e", "m">>, a_bad_date}

DateForms ==
    {TransactionForm(d, an_amount, t, dt, c, NULL)
        : d \in {<<"mercado">>, <<"feira">>}, t \in {<<"entrada">>, <<"saida">>},
          dt \in {a_date, another_date} \cup BadDates, c \in {NULL, 1}}

NextDates ==
    \/ \E raw \in CategoryNames : new_category(1, raw)
    \/ \E form \in DateForms, now \in Clock : new_transaction(1, form, now)
    \/ \E form \in DateForms, now \in Clock : transactions_new_transaction(1, form, now)
    \/ \E id \in TransactionIds, form \in DateForms : edit_transaction(1, id, form)
    \/ \E id \in TransactionIds, form \in DateForms :
           transactions_edit_transaction(1, id, form)
    \/ \E id \in TransactionIds : delete_transaction(1, id)

SpecDates == InitNames /\ [][NextDates]_vars

\* C25: an edit submitted with an empty or unparsable date leaves the stored
\* date of the transaction as it was, and a create submitted with such a date
\* stores the current time, never a null date.
C25_bad_date_keeps_or_defaults ==
    [][\A form \in DateForms : form.date \in BadDates =>
          /\ \A id \in TransactionIds :
                 edit_transaction(1, id, form) \/ transactions_edit_transaction(1, id, form)
                 => \A t \in transactions : t.id = id =>
                        \E e \in transactions' : e.id = id /\ e.date = t.date
          /\ \A now \in Clock :
                 new_transaction(1, form, now) \/ transactions_new_transaction(1, form, now)
                 => \A t \in transactions' \ transactions : t.date = now /\ t.date # NoDate
      ]_vars

-----------------------------------------------------------------------------
(* The transaction list (SpecList).                                        *)

\* the number of transactions of the larger ledgers: one more than a page
ListRows == 11

day_text(d) == <<"2", "0", "2", "5", "-", "0", "1", "-">> \o pad2(d)

\* row i of a ledger of owner 1: dated `day` of January 2025, 10 * i of
\* amount, of alternating type, every third in category 1, every fourth on
\* account 1
ledger_row(i, day) ==
    Transaction(i, 1, <<"mercado">>, decimal(10 * i, 0),
                IF i % 2 = 0 THEN <<"entrada">> ELSE <<"saida">>,
                datetime(2025, 1, day, 0),
                IF i % 3 = 0 THEN 1 ELSE NULL, IF i % 4 = 0 THEN 1 ELSE NULL)

\* a transaction of owner 2
foreign_row ==
    Transaction(ListRows + 1, 2, <<"aluguel">>, decimal(50, 0), <<"saida">>,
                datetime(2025, 1, 5, 0), NULL, NULL)

\* three ledgers: a short one, one of distinct days, and one whose two
\* oldest transactions are of the same day
Ledgers ==
    {{ledger_row(i, i) : i \in 1..3},
     {ledger_row(i, i) : i \in 1..ListRows},
     {ledger_row(i, IF i = 1 THEN 2 ELSE i) : i \in 1..ListRows}}

InitList ==
    /\ users = {User(1, <<"Ana">>, <<"a@x">>, generate_password_hash(<<"s3nha">>)),
                User(2, <<"Bia">>, <<"b@x">>, generate_password_hash(<<"outra">>))}
    /\ accounts = seed_rows(1, 0) \cup seed_rows(2, Len(default_accounts))
    /\ categories = {Category(1, 1, <<"Casa">>)}
    /\ \E ledger \in Ledgers : transactions = ledger \cup {foreign_row}
    /\ goals = {} /\ score_rules = {}
    /\ seq = [users |-> 2, accounts |-> 2 * Len(default_accounts), categories |-> 1,
              transactions |-> ListRows + 1, score_rules |-> 0]
    /\ sessions = {1}
    /\ inflight = EmptyBag
    /\ resp = [code |-> 302, flash |-> "success"]

ListArgs(type, category_id, account_id, start_date, end_date, min_amount, max_amount, page) ==
    [type |-> type, category_id |-> category_id, account_id |-> account_id,
     start_date |-> start_date, end_date |-> end_date, min_amount |-> min_amount,
     max_amount |-> max_amount, page |-> page]

\* the queries: no filter, each filter alone, all together, on pages 1 and 2;
\* pages 0 and 3; a type and a date that are not valid
ListQueries ==
    {ListArgs(t, NULL, NULL, <<>>, <<>>, <<>>, <<>>, p)
        : t \in {<<>>, <<"entrada">>, <<"transferencia">>}, p \in 0..3}
    \cup {ListArgs(<<>>, c, a, <<>>, <<>>, <<>>, <<>>, p)
             : c \in {NULL, 1}, a \in {NULL, 1}, p \in {1, 2}}
    \cup {ListArgs(<<>>, NULL, NULL, s, e, <<>>, <<>>, p)
             : s \in {<<>>, day_text(3)}, e \in {<<>>, day_text(9), a_bad_date}, p \in {1, 2}}
    \cup {ListArgs(<<>>, NULL, NULL, <<>>, <<>>, mn, mx, p)
             : mn \in {<<>>, <<"3", "0">>}, mx \in {<<>>, <<"1", "0", "0">>}, p \in {1, 2}}
    \cup {ListArgs(<<"saida">>, 1, NULL, day_text(3), day_text(9), <<"3", "0">>,
                   <<"1", "0", "0">>, 1)}

NextList ==
    \/ \E args \in ListQueries : list_transactions(1, args)
    \/ \E args \in ListQueries : transactions_list_transactions(1, args)

SpecList == InitList /\ [][NextList]_vars

\* the caller's transactions that satisfy every filter of the query that is
\* supplied and valid
matching(u, args) ==
    {t \in transactions :
        /\ t.user_id = u
        /\ valid_type(args.type) => t.type = args.type
        /\ args.category_id # NULL => t.category_id = args.category_id
        /\ args.account_id # NULL => t.account_id = args.account_id
        /\ strptime_ymd(args.start_date).ok
               => ~before(t.date, strptime_ymd(args.start_date).val)
        /\ strptime_ymd(args.end_date).ok
               => before(t.date, timedelta_day(strptime_ymd(args.end_date).val))
        /\ safe_float_br(args.min_amount).ok
               => le(safe_float_br(args.min_amount).val, t.amount)
        /\ safe_float_br(args.max_amount).ok
               => le(t.amount, safe_float_br(args.max_amount).val)}

\* a response of the list
listed(r) == "items" \in DOMAIN r

\* the same query but for the page
same_query(a, b) == [a EXCEPT !.page = 1] = [b EXCEPT !.page = 1]

range(s) == {s[i] : i \in 1..Len(s)}

\* C26: a page of the list holds only transactions of the caller that
\* satisfy every filter supplied, in descending order of date, at most 10 of
\* them; and pages 1 and 2 of one query, requested one after the other,
\* share no transaction and together hold every match (there being at most
\* 20).
C26_list_filters_orders_paginates ==
    [][listed(resp') =>
          /\ range(resp'.items) \subseteq matching(1, resp'.args)
          /\ \A i, j \in 1..Len(resp'.items) :
                 i < j => ~before(resp'.items[i].date, resp'.items[j].date)
          /\ Len(resp'.items) <= per_page
          /\ Cardinality(range(resp'.items)) = Len(resp'.items)
          /\ /\ listed(resp) /\ same_query(resp.args, resp'.args)
             /\ {resp.args.page, resp'.args.page} = {1, 2}
             => /\ range(resp.items) \cap range(resp'.items) = {}
                /\ range(resp.items) \cup range(resp'.items) = matching(1, resp'.args)
      ]_vars

-----------------------------------------------------------------------------
(* Interleaved edits of one transaction (SpecEdits).                       *)

EditForms ==
    {TransactionForm(d, a, <<"saida">>, dt, c, NULL)
        : d \in {<<"mercado">>, <<"feira">>}, a \in {an_amount, an_integer},
          dt \in {a_date, <<>>}, c \in {NULL, 1}}

\* one owner with category 1 and a transaction; an edit runs whole, or
\* between the load and the COMMIT of another edit
NextEdits ==
    \/ new_category(1, <<"Casa">>)
    \/ \E now \in Clock :
           new_transaction(1, TransactionForm(<<"mercado">>, an_amount, <<"saida">>,
                                              a_date, NULL, NULL), now)
    \/ \E id \in TransactionIds, form \in EditForms : edit_transaction(1, id, form)
    \/ \E id \in TransactionIds, form \in EditForms : begin_edit_transaction(1, id, form)
    \/ commit_inflight

SpecEdits == InitNames /\ [][NextEdits]_vars

\* C27: when the COMMIT of an edit succeeds, the stored row holds, field for
\* field, the values that edit assigned, also when another edit of the same
\* row committed between its load and its COMMIT.
C27_last_edit_wins_whole ==
    [][\A r \in BagToSet(inflight) :
          /\ r.op = "edit_transaction" /\ inflight' = inflight (-) SetToBag({r})
          /\ resp'.flash = "success"
          => \E t \in transactions' : t = r.plan.assigned]_vars

-----------------------------------------------------------------------------
(* A delete racing with a transaction that links to the row (SpecDeletes). *)

\* the id new_account gives the first account created after InitNames
an_account_id == Len(default_accounts) + 1

LinkForms ==
    {TransactionForm(<<"mercado">>, an_amount, <<"saida">>, a_date, c, a)
        : c \in {NULL, 1}, a \in {NULL, an_account_id}}

linked_file ==
    csv_text(csv_header, <<<<a_date, <<"mercado">>, <<"saida">>, an_amount,
                             <<"Casa">>, <<"Carteira">>>>>>, ";")

\* one owner creates category 1 and an account, deletes them whole or in two
\* steps, and creates, edits and imports transactions in between
NextDeletes ==
    \/ new_category(1, <<"Casa">>)
    \/ new_account(1, <<"Carteira">>, <<"banco">>)
    \/ \E id \in CategoryIds : delete_category(1, id)
    \/ \E id \in CategoryIds : begin_delete_category(1, id)
    \/ delete_account(1, an_account_id)
    \/ begin_delete_account(1, an_account_id)
    \/ \E form \in LinkForms, now \in Clock : new_transaction(1, form, now)
    \/ \E id \in TransactionIds, form \in LinkForms : edit_transaction(1, id, form)
    \/ post_import_transactions(1, linked_file)
    \/ commit_inflight

SpecDeletes == InitNames /\ [][NextDeletes]_vars

\* C28: when a delete of a category or an account commits while a stored
\* transaction links to it, the row is not removed and no link is cleared,
\* also when the transaction was committed after the delete had looked for
\* linked transactions.
C28_delete_keeps_linked_row ==
    [][\A r \in BagToSet(inflight) : inflight' = inflight (-) SetToBag({r}) =>
          /\ r.op = "delete_category" /\ (\E t \in transactions : t.category_id = r.id)
                 => (\E c \in categories' : c.id = r.id) /\ transactions' = transactions
          /\ r.op = "delete_account" /\ (\E t \in transactions : t.account_id = r.id)
                 => (\E a \in accounts' : a.id = r.id) /\ transactions' = transactions
      ]_vars

-----------------------------------------------------------------------------
(* The values of a score rule (SpecForms).                                 *)

\* C29: every stored score rule has monthly_limit > 0, 0 < warning_pct < 1.5
\* and is active.
C29_rule_values_in_range ==
    \A r \in score_rules :
        /\ lt(zero, r.monthly_limit)
        /\ lt(zero, r.warning_pct) /\ lt(r.warning_pct, decimal(15, 1))
        /\ r.active

-----------------------------------------------------------------------------
(* The transaction handlers of app.py beside those of the transactions     *)
(* blueprint (SpecBoth).                                                   *)

BothForms ==
    {TransactionForm(d, a, t, dt, c, NULL)
        : d \in {<<"mercado">>, <<" ">>}, a \in {an_amount, <<"a", "b", "c">>},
          t \in {<<"saida">>, <<"transferencia">>}, dt \in {a_date, <<>>}, c \in {NULL, 1}}

BothFiles ==
    {csv_text(csv_header, <<a_row(<<"mercado">>, <<"SAIDA">>, an_amount, a_date)>>, ";"),
     csv_text(lower_header, <<a_row(<<"mercado">>, <<"saida">>, an_integer, a_date)>>, ","),
     csv_text(lower_header, <<<<a_date, <<"mercado">>, <<"saida">>, an_integer>>>>, ","),
     csv_text(short_header, <<<<<<"mercado">>, <<"saida">>, an_integer>>>>, ",")}

NextBoth ==
    \/ new_category(1, <<"Casa">>)
    \/ \E form \in BothForms, now \in Clock : new_transaction(1, form, now)
    \/ \E form \in BothForms, now \in Clock : transactions_new_transaction(1, form, now)
    \/ \E id \in TransactionIds, form \in BothForms : edit_transaction(1, id, form)
    \/ \E id \in TransactionIds, form \in BothForms :
           transactions_edit_transaction(1, id, form)
    \/ \E id \in TransactionIds : delete_transaction(1, id)
    \/ \E raw \in BothFiles : post_import_transactions(1, raw)
    \/ \E raw \in BothFiles, now \in Clock : transactions_import_transactions(1, raw, now)

SpecBoth == InitNames /\ [][NextBoth]_vars

\* the step is a successful request under either handler
same_step(app, blueprint) == resp'.flash = "success" => (app <=> blueprint)

\* what the import of the blueprint adds for the file
blueprint_plan(raw, now) ==
    transactions_import_rows(1, DictReader(raw, ","), DictReader(raw, ",").rows,
                             import_start, now).transactions \ transactions

\* what the import of app.py adds for the file
app_plan(raw) ==
    IF raw # <<>> /\ has_required(read(raw)) THEN plan_of(raw) ELSE no_plan

\* C30: a create, an edit or an import that changes the tables under the
\* handler of app.py changes them in the same way under the handler of the
\* same name of the transactions blueprint, and the other way round: the same
\* forms and files are accepted, and the same transactions, categories and
\* accounts are stored.
C30_handlers_equivalent ==
    [][tables' # tables =>
          /\ \A form \in BothForms :
                 /\ \A now \in Clock :
                        same_step(new_transaction(1, form, now),
                                  transactions_new_transaction(1, form, now))
                 /\ \A id \in TransactionIds :
                        same_step(edit_transaction(1, id, form),
                                  transactions_edit_transaction(1, id, form))
          /\ \A raw \in BothFiles :
                 /\ post_import_transactions(1, raw)
                        => \E now \in Clock :
                               /\ transactions' = transactions \cup blueprint_plan(raw, now)
                               /\ categories' = categories /\ accounts' = accounts
                 /\ \A now \in Clock : transactions_import_transactions(1, raw, now)
                        => /\ transactions' = transactions \cup app_plan(raw).transactions
                           /\ categories' = categories \cup app_plan(raw).categories
                           /\ accounts' = accounts \cup app_plan(raw).accounts
      ]_vars

=============================================================================
